---- MODULE Spec2Model ----
(***************************************************************************)
(* A model of the MCP Rally server: the Rally REST client (workspace       *)
(* resolution in validateCredentials, story and relationship requests) and *)
(* the MCP tool handlers that call it.                                      *)
(*                                                                         *)
(* JavaScript values are modelled as follows.                               *)
(*   - a string is a sequence of chunks (each chunk a TLA+ string); a       *)
(*     template literal is the concatenation of its parts; workspace        *)
(*     tokens and names are kept character by character;                    *)
(*   - an optional value (x?: T, or a field that may be missing from a      *)
(*     payload) is a set with at most one element: {} is undefined;         *)
(*   - an object is a record or a function from field names.                *)
(* Node runs one continuation at a time, so an action is the code between   *)
(* two awaits: it ends where the code issues a request and waits.           *)
(***************************************************************************)
EXTENDS Integers, Sequences, FiniteSets, TLC

\* ------------------------------------------------------------------ bounds

\* Largest number of entries in a workspace query / list answer.
MaxResults == 2

\* Largest number of resolutions that story operations trigger in a run.
MaxResolutions == 2

\* Largest number of relationship tool calls made on the in-memory double.
MaxOps == 2

\* Largest number of transports the HTTP server creates in a run.
MaxTransports == 3

\* Largest TotalResultCount and StartIndex of a stories page.
MaxTotal == 4

\* ------------------------------------------------------------------- text

Digits == {"0", "1", "2", "3", "4", "5", "6", "7", "8", "9"}

\* /^\d+$/.test(s)
IsAllDigits(s) == Len(s) > 0 /\ \A i \in 1..Len(s) : s[i] \in Digits

\* String.prototype.toLowerCase, on the characters the model uses
LowerChar(c) ==
  CASE c = "A" -> "a"
    [] c = "B" -> "b"
    [] c = "C" -> "c"
    [] OTHER -> c

ToLowerCase(s) == [i \in 1..Len(s) |-> LowerChar(s[i])]

\* String.prototype.includes
Includes(hay, needle) ==
  \E i \in 0..(Len(hay) - Len(needle)) :
    SubSeq(hay, i + 1, i + Len(needle)) = needle

DigitChar(d) ==
  CASE d = 0 -> "0" [] d = 1 -> "1" [] d = 2 -> "2" [] d = 3 -> "3"
    [] d = 4 -> "4" [] d = 5 -> "5" [] d = 6 -> "6" [] d = 7 -> "7"
    [] d = 8 -> "8" [] d = 9 -> "9"

\* `${n}` for a non-negative integer n
RECURSIVE NumToText(_)
NumToText(n) ==
  IF n < 10 THEN <<DigitChar(n)>>
  ELSE Append(NumToText(n \div 10), DigitChar(n % 10))

\* `${x}` for an optional number: undefined prints as "undefined"
OptNumToText(x) ==
  IF x = {} THEN <<"undefined">> ELSE NumToText(CHOOSE n \in x : TRUE)

\* `${x}` for an optional string
OptText(x) ==
  IF x = {} THEN <<"undefined">> ELSE CHOOSE t \in x : TRUE

\* The value of an optional that is present
The(x) == CHOOSE v \in x : TRUE

\* The longest run of digits of s that starts at position i
RECURSIVE DigitRun(_, _)
DigitRun(s, i) ==
  IF i <= Len(s) /\ s[i] \in Digits THEN <<s[i]>> \o DigitRun(s, i + 1)
  ELSE <<>>

\* ref.match(/\/workspace\/(\d+)/): the captured digits of the first match,
\* or {} when there is no match. The text "/workspace/" is one chunk.
RefMatch(ref) ==
  LET hits == {i \in 1..(Len(ref) - 1) :
                 ref[i] = "/workspace/" /\ ref[i + 1] \in Digits}
  IN IF hits = {} THEN {}
     ELSE LET first == CHOOSE i \in hits : \A j \in hits : i <= j
          IN {DigitRun(ref, first + 1)}

\* ------------------------------------------------- backend answers (inputs)

\* A workspace as the backend's JSON shows it: every field may be missing.
WsA == [ObjectID |-> {1}, Name |-> {<<"A", "b">>},
        ref |-> {<<"https://rally1", "/workspace/", "1">>}]
WsB == [ObjectID |-> {12}, Name |-> {<<"c">>},
        ref |-> {<<"https://rally1", "/workspace/", "1", "2">>}]
WsC == [ObjectID |-> {}, Name |-> {<<"B", "a", "b">>},
        ref |-> {<<"https://rally1", "/workspace/", "7">>}]
WsD == [ObjectID |-> {}, Name |-> {},
        ref |-> {<<"https://rally1", "/workspace/", "x">>}]
WsE == [ObjectID |-> {}, Name |-> {<<"c">>}, ref |-> {}]

WsEntries == {WsA, WsB, WsC, WsD, WsE}

\* The workspace tokens a configuration may carry (config.rallyWorkspace).
Tokens ==
  {<<"1">>, <<"1", "2">>, <<"0", "1">>, <<"a", "B">>, <<"c", "c">>,
   <<"7", "a">>, <<>>}

\* The configured default project (config.rallyProject), optional.
Projects == {{}, {<<"P9">>}}

ResultSeqs ==
  UNION {[1..n -> WsEntries] : n \in 0..MaxResults}

\* response.data of a /workspace request: falsy body, no QueryResult, a
\* QueryResult without Results, or a QueryResult with Results and Errors.
QueryData ==
  {{}, {[QueryResult |-> {}]}}
  \cup {{[QueryResult |-> {[Results |-> {}, Errors |-> e]}]} :
          e \in {{}, {<<>>}, {<<(<<"Not authorized">>)>>}}}
  \cup {{[QueryResult |-> {[Results |-> {rs}, Errors |-> {<<>>}]}]} :
          rs \in ResultSeqs}
  \cup {{[QueryResult |->
            {[Results |-> {<<>>}, Errors |-> {<<(<<"Not authorized">>)>>}]}]}}

\* What a rejected request carries: an axios error (with a response, with
\* only a request, or with neither) or the Error of the 30 second race timer.
HttpError(status) ==
  [axios |-> TRUE, response |-> {status}, request |-> TRUE,
   message |-> <<"Request failed with status code ">> \o NumToText(status)]
NoResponseError ==
  [axios |-> TRUE, response |-> {}, request |-> TRUE,
   message |-> <<"Network Error">>]
SetupError ==
  [axios |-> TRUE, response |-> {}, request |-> FALSE,
   message |-> <<"Invalid URL">>]
TimerError(what) ==
  [axios |-> FALSE, response |-> {}, request |-> FALSE,
   message |-> <<what, " timed out after 30 seconds">>]

Resolved(status, data) == [kind |-> "resolved", status |-> status, data |-> data]
Rejected(err) == [kind |-> "rejected", error |-> err]

Failures(what) ==
  {Rejected(HttpError(401)), Rejected(HttpError(500)),
   Rejected(NoResponseError), Rejected(SetupError),
   Rejected(TimerError(what))}

\* Answers to GET /subscription (axios resolves every 2xx status).
PingAnswers ==
  {Resolved(200, {[QueryResult |-> {}]}), Resolved(200, {}),
   Resolved(204, {})}
  \cup Failures("Subscription request")

QueryAnswers ==
  {Resolved(200, d) : d \in QueryData} \cup Failures("Workspace request")

ListAnswers ==
  {Resolved(200, d) : d \in QueryData} \cup Failures("Workspace listing")

\* ------------------------------------------- RallyClient.validateCredentials

Valid == [kind |-> "return", valid |-> TRUE, error |-> {}]
ValidWith(msg) == [kind |-> "return", valid |-> TRUE, error |-> {msg}]
Invalid(msg) == [kind |-> "return", valid |-> FALSE, error |-> {msg}]
Raise(err) == [kind |-> "throw", error |-> err]

\* workspaceIsNumeric as the constructor computes it
ConstructorIsNumeric(token) == IsAllDigits(token)

\* The query of the first /workspace request
WorkspaceQuery(token, isNumeric) ==
  IF isNumeric THEN <<"(ObjectID = ">> \o token \o <<")">>
  ELSE <<"(Name = \"">> \o token \o <<"\")">>

\* data && data.QueryResult && data.QueryResult.Results && Results.length > 0
HasResults(data) ==
  /\ data # {}
  /\ The(data).QueryResult # {}
  /\ The(The(data).QueryResult).Results # {}
  /\ Len(The(The(The(data).QueryResult).Results)) > 0

ResultsOf(data) == The(The(The(data).QueryResult).Results)

\* data && data.QueryResult && data.QueryResult.Errors && Errors.length > 0
HasErrors(data) ==
  /\ data # {}
  /\ The(data).QueryResult # {}
  /\ The(The(data).QueryResult).Errors # {}
  /\ Len(The(The(The(data).QueryResult).Errors)) > 0

ErrorsOf(data) == The(The(The(data).QueryResult).Errors)

\* Array.prototype.join("; ")
RECURSIVE JoinErrors(_)
JoinErrors(errs) ==
  IF Len(errs) = 0 THEN <<>>
  ELSE IF Len(errs) = 1 THEN errs[1]
  ELSE errs[1] \o <<"; ">> \o JoinErrors(Tail(errs))

\* An outer catch that rethrows what is not an axios error, as the catch of
\* the other client methods does
OuterCatchRethrowing(err) ==
  IF err.axios /\ err.response # {}
  THEN IF The(err.response) = 401
       THEN Invalid(<<"Authentication failed - invalid API key">>)
       ELSE Invalid(<<"Request failed with status ">>
                    \o NumToText(The(err.response)) \o <<": ">> \o err.message)
  ELSE IF err.axios /\ err.request
  THEN Invalid(<<"No response from Rally API server - network issue or service unavailable">>)
  ELSE Raise(err)

\* the catch of the outer try
OuterCatch(err) ==
  IF err.axios /\ err.response # {}
  THEN IF The(err.response) = 401
       THEN Invalid(<<"Authentication failed - invalid API key">>)
       ELSE Invalid(<<"Request failed with status ">>
                    \o NumToText(The(err.response)) \o <<": ">> \o err.message)
  ELSE IF err.axios /\ err.request
  THEN Invalid(<<"No response from Rally API server - network issue or service unavailable">>)
  ELSE Invalid(<<"Failed to validate credentials: ">> \o err.message)

\* the catch of the inner try (workspace stage)
InnerCatch(err) == Invalid(<<"Error checking workspace: ">> \o err.message)

\* w.Name && w.Name.toLowerCase().includes(this.workspace.toLowerCase())
NameMatches(w, token) ==
  /\ w.Name # {}
  /\ The(w.Name) # <<>>
  /\ Includes(ToLowerCase(The(w.Name)), ToLowerCase(token))

\* Results.find(...): the index of the first matching workspace, 0 if none
FindMatching(results, token) ==
  LET hits == {i \in 1..Len(results) : NameMatches(results[i], token)}
  IN IF hits = {} THEN 0 ELSE CHOOSE i \in hits : \A j \in hits : i <= j

\* workspaceId of the first-available fallback: ObjectID, or the digits of
\* _ref when ObjectID is falsy
FallbackId(w) ==
  IF w.ObjectID # {} /\ The(w.ObjectID) # 0 THEN NumToText(The(w.ObjectID))
  ELSE IF w.ref # {} /\ The(w.ref) # <<>> /\ RefMatch(The(w.ref)) # {}
  THEN The(RefMatch(The(w.ref)))
  ELSE OptNumToText(w.ObjectID)

WorkspaceRefOf(idText) == <<"/workspace/">> \o idText

FallbackAdvisory(token, w) ==
  <<"Specified workspace \"">> \o token \o <<"\" not found, using \"">>
  \o OptText(w.Name) \o <<"\" (">> \o FallbackId(w) \o <<") instead">>

\* Each stage yields: what validateCredentials does next ("query", "list" or
\* "return"), the value of this.workspaceRef afterwards, and the outcome.
Stage(next, ref, outcome) == [next |-> next, ref |-> ref, outcome |-> outcome]

\* A validator that goes on to the workspace stage after a failed ping
AfterPingContinuing(answer, ref) ==
  IF answer.kind = "rejected" THEN Stage("query", ref, Valid)
  ELSE IF answer.status = 200 /\ answer.data # {}
  THEN Stage("query", ref, Valid)
  ELSE Stage("return", ref,
             Invalid(<<"Unexpected response from Rally API: ">>
                     \o NumToText(answer.status)))

\* From the answer to GET /subscription to the next await or the return
AfterPing(answer, ref) ==
  IF answer.kind = "rejected" THEN Stage("return", ref, OuterCatch(answer.error))
  ELSE IF answer.status = 200 /\ answer.data # {}
  THEN Stage("query", ref, Valid)
  ELSE Stage("return", ref,
             Invalid(<<"Unexpected response from Rally API: ">>
                     \o NumToText(answer.status)))

\* The first /workspace answer taken as valid without recording the
\* reference of the workspace found
AfterQueryKeepingRef(answer, ref) ==
  IF answer.kind = "rejected" THEN Stage("return", ref, InnerCatch(answer.error))
  ELSE IF HasResults(answer.data)
  THEN Stage("return", ref, Valid)
  ELSE Stage("list", ref, Valid)

\* From the answer to the first /workspace request
AfterQuery(answer, ref) ==
  IF answer.kind = "rejected" THEN Stage("return", ref, InnerCatch(answer.error))
  ELSE IF HasResults(answer.data)
  THEN Stage("return",
             {WorkspaceRefOf(OptNumToText(ResultsOf(answer.data)[1].ObjectID))},
             Valid)
  ELSE Stage("list", ref, Valid)

\* From the answer to the workspace list request
AfterList(answer, ref, token, isNumeric) ==
  IF answer.kind = "rejected" THEN Stage("return", ref, InnerCatch(answer.error))
  ELSE IF HasResults(answer.data)
  THEN LET results == ResultsOf(answer.data)
           m == IF ~isNumeric /\ token # <<>>
                THEN FindMatching(results, token) ELSE 0
       IN IF m # 0
          THEN Stage("return",
                     {WorkspaceRefOf(OptNumToText(results[m].ObjectID))}, Valid)
          ELSE Stage("return", {WorkspaceRefOf(FallbackId(results[1]))},
                     ValidWith(FallbackAdvisory(token, results[1])))
  ELSE IF HasErrors(answer.data)
  THEN Stage("return", ref,
             Invalid(<<"Workspace listing failed: ">>
                     \o JoinErrors(ErrorsOf(answer.data))))
  ELSE Stage("return", ref,
             Invalid(<<"No accessible workspaces found with this API key">>))

\* ------------------------------------------------ RallyClient: the requests

\* JSON null
JsNull == [null |-> TRUE]

\* The object literal {}
NoFields == <<>>

RelationshipTypes ==
  {"Predecessor", "Successor", "Parent", "Child",
   "Blocker", "Blocked", "Duplicate", "Duplicated"}

\* A value outside the RelationshipType union, as a caller that bypasses the
\* type checker can pass it
UnknownTypes == {"Related"}

\* Artifact ids the callers use
Ids == {<<"US1">>, <<"US2">>}

ArtifactType == <<"HierarchicalRequirement">>

\* `/${artifactType}/${id}`
ArtifactPath(id) == <<"/">> \o ArtifactType \o <<"/">> \o id

Request(method, path, params, body) ==
  [method |-> method, path |-> path, params |-> params, body |-> body]

NoParams == <<>>

PingRequest == Request("GET", <<"/subscription">>, NoParams, {})
QueryRequest(token, isNumeric) ==
  Request("GET", <<"/workspace">>,
          "query" :> {WorkspaceQuery(token, isNumeric)}, {})
ListRequest == Request("GET", <<"/workspace">>, NoParams, {})

\* The switch of createRelationship: the collection, or {} for the default
\* branch, which throws
CreateCollectionName(relationshipType) ==
  CASE relationshipType = "Predecessor" -> {"Predecessors"}
    [] relationshipType = "Successor" -> {"Successors"}
    [] relationshipType = "Parent" -> {"Parent"}
    [] relationshipType = "Child" -> {"Children"}
    [] relationshipType = "Blocker" -> {"Blockers"}
    [] relationshipType = "Blocked" -> {"Blocked"}
    [] relationshipType = "Duplicate" -> {"Duplicates"}
    [] relationshipType = "Duplicated" -> {"Duplicated"}
    [] OTHER -> {}

\* The switch of removeRelationship with the Blocker case writing Blocked
RemoveCollectionNameSwapped(relationshipType) ==
  CASE relationshipType = "Predecessor" -> {"Predecessors"}
    [] relationshipType = "Successor" -> {"Successors"}
    [] relationshipType = "Parent" -> {"Parent"}
    [] relationshipType = "Child" -> {"Children"}
    [] relationshipType = "Blocker" -> {"Blocked"}
    [] relationshipType = "Blocked" -> {"Blocked"}
    [] relationshipType = "Duplicate" -> {"Duplicates"}
    [] relationshipType = "Duplicated" -> {"Duplicated"}
    [] OTHER -> {}

\* The switch of removeRelationship
RemoveCollectionName(relationshipType) ==
  CASE relationshipType = "Predecessor" -> {"Predecessors"}
    [] relationshipType = "Successor" -> {"Successors"}
    [] relationshipType = "Parent" -> {"Parent"}
    [] relationshipType = "Child" -> {"Children"}
    [] relationshipType = "Blocker" -> {"Blockers"}
    [] relationshipType = "Blocked" -> {"Blocked"}
    [] relationshipType = "Duplicate" -> {"Duplicates"}
    [] relationshipType = "Duplicated" -> {"Duplicated"}
    [] OTHER -> {}

\* ['Parent'].includes(collectionName) in createRelationship
CreateIsSingleReference(collectionName) == collectionName \in {"Parent"}

\* ['Parent'].includes(collectionName) in removeRelationship
RemoveIsSingleReference(collectionName) == collectionName \in {"Parent"}

\* updateData of createRelationship
CreateUpdateData(collectionName, targetId) ==
  IF CreateIsSingleReference(collectionName)
  THEN [HierarchicalRequirement |->
          collectionName :> [_ref |-> ArtifactPath(targetId)]]
  ELSE [HierarchicalRequirement |->
          collectionName :> [_type |-> "add", _ref |-> ArtifactPath(targetId)]]

\* updateData of removeRelationship that leaves the single reference out
\* instead of setting it to null
RemoveUpdateDataOmitting(collectionName, targetId) ==
  IF RemoveIsSingleReference(collectionName)
  THEN [HierarchicalRequirement |-> NoFields]
  ELSE [HierarchicalRequirement |->
          collectionName :> [_type |-> "remove", _ref |-> ArtifactPath(targetId)]]

\* updateData of removeRelationship
RemoveUpdateData(collectionName, targetId) ==
  IF RemoveIsSingleReference(collectionName)
  THEN [HierarchicalRequirement |-> collectionName :> JsNull]
  ELSE [HierarchicalRequirement |->
          collectionName :> [_type |-> "remove", _ref |-> ArtifactPath(targetId)]]

UnsupportedError(relationshipType) ==
  [axios |-> FALSE, response |-> {}, request |-> FALSE,
   message |-> <<"Unsupported relationship type: ", relationshipType>>]

TypeError(what) ==
  [axios |-> FALSE, response |-> {}, request |-> FALSE,
   message |-> <<"Cannot read properties of undefined (reading '", what, "')">>]

\* JSON.stringify drops the keys whose value is undefined
Serialize(obj) ==
  LET keep == {k \in DOMAIN obj : obj[k] # {}}
  IN [k \in keep |-> obj[k]]

\* The body of createStory with the configured project taking precedence
\* over the caller's
CreateStoryBodyDefaultFirst(data, ref, proj) ==
  [HierarchicalRequirement |->
     ("Workspace" :> {[_ref |-> ref]})
     @@ ("Project" :>
           (IF proj # {} /\ The(proj) # <<>>
            THEN {[_ref |-> <<"/project/">> \o The(proj)]}
            ELSE IF "Project" \in DOMAIN data THEN data["Project"] ELSE {}))
     @@ data]

\* The body of createStory: {...data, Workspace, Project}
CreateStoryBody(data, ref, proj) ==
  [HierarchicalRequirement |->
     ("Workspace" :> {[_ref |-> ref]})
     @@ ("Project" :>
           (IF "Project" \in DOMAIN data /\ data["Project"] # {}
            THEN data["Project"]
            ELSE IF proj # {} /\ The(proj) # <<>>
                 THEN {[_ref |-> <<"/project/">> \o The(proj)]}
                 ELSE {}))
     @@ data]

\* What a client method does between the workspace check and its request:
\* the request it issues, or the error it throws. `ref` is this.workspaceRef.
Prepared(req) == [kind |-> "request", request |-> req]
Thrown(err) == [kind |-> "throw", error |-> err]

\* project: this.project ? `/project/${this.project}` : undefined
ProjectParam(proj) ==
  IF proj # {} /\ The(proj) # <<>> THEN {<<"/project/">> \o The(proj)} ELSE {}

\* params of getStories: {workspace, project, ...queryParams}
StoriesParams(queryParams, ref, proj) ==
  queryParams @@ ("workspace" :> ref) @@ ("project" :> ProjectParam(proj))

\* fetch of getRelationships, the field names and the commas between them
\* as separate chunks
FetchList ==
  <<"Predecessors", ",", "Successors", ",", "Children", ",", "Parent", ",",
    "Blocked", ",", "Blocker", ",", "Duplicates">>

Prepare(op, args, ref, proj) ==
  CASE op = "getStories" ->
         Prepared(Request("GET", <<"/">> \o ArtifactType,
                          StoriesParams(args.queryParams, ref, proj), {}))
    [] op = "getStory" ->
         Prepared(Request("GET", ArtifactPath(args.id),
                          ("workspace" :> ref) @@ ("project" :> ProjectParam(proj)),
                          {}))
    [] op = "createStory" ->
         Prepared(Request("POST", <<"/HierarchicalRequirement/create">>,
                          NoParams, {CreateStoryBody(args.data, ref, proj)}))
    [] op = "updateStory" ->
         Prepared(Request("POST", ArtifactPath(args.id), NoParams,
                          {[HierarchicalRequirement |-> args.data]}))
    [] op = "deleteStory" ->
         Prepared(Request("DELETE", ArtifactPath(args.id), NoParams, {}))
    [] op = "getRelationships" ->
         Prepared(Request("GET", ArtifactPath(args.artifactId),
                          ("fetch" :> {FetchList})
                          @@ ("workspace" :> ref),
                          {}))
    [] op = "createRelationship" ->
         IF CreateCollectionName(args.relationshipType) = {}
         THEN Thrown(UnsupportedError(args.relationshipType))
         ELSE Prepared(Request("POST", ArtifactPath(args.sourceId), NoParams,
                  {CreateUpdateData(The(CreateCollectionName(args.relationshipType)),
                                    args.targetId)}))
    [] op = "removeRelationship" ->
         IF RemoveCollectionName(args.relationshipType) = {}
         THEN Thrown(UnsupportedError(args.relationshipType))
         ELSE Prepared(Request("POST", ArtifactPath(args.sourceId), NoParams,
                  {RemoveUpdateData(The(RemoveCollectionName(args.relationshipType)),
                                    args.targetId)}))

\* The operation-specific prefix of the wrapped error message
FailurePrefix(op, args) ==
  CASE op = "getStories" -> <<"Failed to fetch stories: ">>
    [] op = "getStory" -> <<"Failed to fetch story ">> \o args.id \o <<": ">>
    [] op = "createStory" -> <<"Failed to create story: ">>
    [] op = "updateStory" -> <<"Failed to update story ">> \o args.id \o <<": ">>
    [] op = "deleteStory" -> <<"Failed to delete story ">> \o args.id \o <<": ">>
    [] op = "getRelationships" ->
         <<"Failed to get relationships for ">> \o args.artifactId \o <<": ">>
    [] op = "createRelationship" -> <<"Failed to create relationship: ">>
    [] op = "removeRelationship" -> <<"Failed to remove relationship: ">>

\* The catch of every client method: an axios error is wrapped in a new
\* Error, anything else is rethrown
ClientCatch(op, args, err) ==
  IF err.axios
  THEN [axios |-> FALSE, response |-> {}, request |-> FALSE,
        message |-> FailurePrefix(op, args) \o err.message]
  ELSE err

\* -------------------------------------------------- answers to the requests

\* A JavaScript value read from a response body: null/undefined, a string,
\* an array, or an object (a function from its keys to values).
JsNullish == [kind |-> "null"]
JsText(t) == [kind |-> "text", text |-> t]
JsArray(items) == [kind |-> "array", items |-> items]
JsObject(fields) == [kind |-> "object", fields |-> fields]
JsNumber(n) == [kind |-> "number", value |-> n]
JsNaN == [kind |-> "nan"]
JsBoolean(b) == [kind |-> "boolean", value |-> b]

\* v[key]: reading a property of null or undefined throws a TypeError (the
\* caller tests CanRead first); a missing property reads as undefined
CanRead(v) == v.kind # "null"
Get(v, key) ==
  IF v.kind = "object" /\ key \in DOMAIN v.fields THEN v.fields[key]
  ELSE JsNullish

\* JavaScript truthiness
Truthy(v) ==
  CASE v.kind = "null" -> FALSE
    [] v.kind = "text" -> v.text # <<>>
    [] v.kind = "number" -> v.value # 0
    [] v.kind = "nan" -> FALSE
    [] v.kind = "boolean" -> v.value
    [] OTHER -> TRUE

\* a || b
JsOr(a, b) == IF Truthy(a) THEN a ELSE b

\* a + b on numbers; undefined + n is NaN
JsPlus(a, b) ==
  IF a.kind = "number" /\ b.kind = "number" THEN JsNumber(a.value + b.value)
  ELSE JsNaN

\* a < b on numbers; a comparison with NaN or undefined is false
JsLess(a, b) ==
  JsBoolean(a.kind = "number" /\ b.kind = "number" /\ a.value < b.value)

\* Bodies the backend may answer POST /HierarchicalRequirement/create with
CreateBodies ==
  {JsNullish, JsText(<<>>),
   JsObject("CreateResult" :> JsObject("Errors" :> JsArray(<<"Validation error">>))),
   JsObject("CreateResult" :> JsObject("Object" :> JsObject(NoFields))),
   JsObject("CreateResult" :>
     JsObject("Object" :> JsObject("FormattedID" :> JsText(<<"US7">>))))}

\* An artifact as GET /HierarchicalRequirement/<id> returns it
NamesOf(names) == JsObject("_tagsNameArray" :> JsArray(names))
Artifacts ==
  {JsObject(NoFields),
   JsObject("Predecessors" :> NamesOf(<<"US2">>)),
   JsObject(("Children" :> JsObject(NoFields))
            @@ ("Parent" :> JsObject("_refObjectName" :> JsText(<<"F1">>)))),
   JsObject(("Parent" :> JsObject(NoFields)) @@ ("Duplicated" :> NamesOf(<<"US2">>))),
   JsObject(("Parent" :> JsNullish) @@ ("Successors" :> NamesOf(<<>>))
            @@ ("Blocked" :> NamesOf(<<"US1", "US2">>))
            @@ ("Blocker" :> NamesOf(<<"US1">>))
            @@ ("Duplicates" :> NamesOf(<<"US2">>))
            @@ ("Duplicated" :> NamesOf(<<"US1">>)))}

RelationshipBodies ==
  {JsNullish, JsText(<<>>), JsObject(NoFields)}
  \cup {JsObject("HierarchicalRequirement" :> a) : a \in Artifacts}

\* Bodies of the answers to an update, a delete or a relationship mutation
OperationBodies ==
  {JsText(<<>>), JsObject("OperationResult" :> JsObject(NoFields))}

RequestFailures == {Rejected(HttpError(500)), Rejected(NoResponseError)}

RequestAnswers(op) ==
  RequestFailures
  \cup {Resolved(200, d) :
          d \in CASE op = "createStory" -> CreateBodies
                  [] op = "getRelationships" -> RelationshipBodies
                  [] OTHER -> OperationBodies}

\* What a client method makes of the answer to its request: the value it
\* returns or the error it throws (before its catch)
Returned(v) == [kind |-> "return", value |-> v]

ClientResult(op, answer) ==
  IF answer.kind = "rejected" THEN Thrown(answer.error)
  ELSE IF op = "createStory"
  THEN \* response.data.CreateResult.Object
       IF ~CanRead(answer.data) THEN Thrown(TypeError("CreateResult"))
       ELSE IF ~CanRead(Get(answer.data, "CreateResult"))
       THEN Thrown(TypeError("Object"))
       ELSE Returned(Get(Get(answer.data, "CreateResult"), "Object"))
  ELSE Returned(answer.data)

\* A client method from the answer of its request to its settlement,
\* through its catch
ClientSettle(op, args, answer) ==
  LET r == ClientResult(op, answer)
  IN IF r.kind = "throw" THEN Thrown(ClientCatch(op, args, r.error)) ELSE r

\* ------------------------------------------------------- the tool handlers

Tools ==
  {"createStory", "updateStory", "deleteStory",
   "createRelationship", "removeRelationship", "getRelationships"}

\* Optional inputs as the schema admits them: absent, empty, or a value
OptTexts(v) == {{}, {<<>>}, {v}}
OptNumbers(n) == {{}, {0}, {n}}

ToolArgs(op) ==
  CASE op = "createStory" ->
         [name : {<<"S">>}, description : OptTexts(<<"d">>),
          projectId : OptTexts(<<"p1">>), state : OptTexts(<<"Defined">>),
          estimate : OptNumbers(5), priority : OptTexts(<<"High">>)]
    [] op = "updateStory" ->
         [id : {<<"US1">>}, name : OptTexts(<<"S">>),
          description : OptTexts(<<"d">>), state : OptTexts(<<"Defined">>),
          estimate : OptNumbers(5), priority : OptTexts(<<"High">>)]
    [] op = "deleteStory" -> [id : Ids]
    [] op = "getRelationships" -> [artifactId : Ids]
    [] OTHER ->
         [sourceId : Ids, targetId : Ids, relationshipType : RelationshipTypes]

\* if (x): a string is truthy when present and non-empty
TruthyText(x) == x # {} /\ The(x) # <<>>
\* if (n): a number is truthy when present and not 0
TruthyNumber(x) == x # {} /\ The(x) # 0

\* An object literal with one key, or without it
Key(cond, key, value) == IF cond THEN key :> value ELSE NoFields

\* storyData of the createStory tool
StoryData(a) ==
  ("Name" :> {a.name}) @@ ("Description" :> a.description)
  @@ Key(TruthyText(a.projectId), "Project",
         {[_ref |-> <<"/project/">> \o OptText(a.projectId)]})
  @@ Key(TruthyText(a.state), "ScheduleState", a.state)
  @@ Key(TruthyNumber(a.estimate), "PlanEstimate", a.estimate)
  @@ Key(TruthyText(a.priority), "Priority", a.priority)

\* updateData built with truthiness tests (if (name) ...) in place of the
\* comparisons with undefined
UpdateDataTruthy(a) ==
  Key(TruthyText(a.name), "Name", a.name)
  @@ Key(TruthyText(a.description), "Description", a.description)
  @@ Key(TruthyText(a.state), "ScheduleState", a.state)
  @@ Key(TruthyNumber(a.estimate), "PlanEstimate", a.estimate)
  @@ Key(TruthyText(a.priority), "Priority", a.priority)

\* updateData of the updateStory tool
UpdateData(a) ==
  Key(a.name # {}, "Name", a.name)
  @@ Key(a.description # {}, "Description", a.description)
  @@ Key(a.state # {}, "ScheduleState", a.state)
  @@ Key(a.estimate # {}, "PlanEstimate", a.estimate)
  @@ Key(a.priority # {}, "Priority", a.priority)

\* A tool result: one text content item (the relationship snapshot, when
\* there is one, is the JSON part of the text) and the isError flag
ToolResult(text, json, isError) ==
  [kind |-> "result",
   content |-> <<[type |-> "text", text |-> text, json |-> json]>>,
   isError |-> isError]

ErrorPrefix(op) ==
  CASE op = "createStory" -> <<"Error creating story: ">>
    [] op = "updateStory" -> <<"Error updating story: ">>
    [] op = "deleteStory" -> <<"Error deleting story: ">>
    [] op = "createRelationship" -> <<"Error creating relationship: ">>
    [] op = "removeRelationship" -> <<"Error removing relationship: ">>
    [] op = "getRelationships" -> <<"Error getting relationships: ">>

\* A catch that reports the error text but leaves isError out
ToolCatchUnflagged(op, err) ==
  ToolResult(ErrorPrefix(op) \o err.message, {}, FALSE)

\* The catch of a tool handler
ToolCatch(op, err) == ToolResult(ErrorPrefix(op) \o err.message, {}, TRUE)

\* What a handler does before it calls the client: an immediate result, or
\* the client call it makes
Immediate(result) == [kind |-> "result", result |-> result]
ClientCall(op, args) == [kind |-> "call", op |-> op, args |-> args]

\* createRelationship without its self-relationship check
CreateRelationshipStartUnchecked(a) == ClientCall("createRelationship", a)

CreateRelationshipStart(a) ==
  IF a.sourceId = a.targetId
  THEN Immediate(ToolResult(<<"Source and target cannot be the same artifact.">>,
                            {}, TRUE))
  ELSE ClientCall("createRelationship", a)

\* updateStory passing every backend field, the absent ones as undefined
UpdateStoryStartAllKeys(a) ==
  ClientCall("updateStory",
             [id |-> a.id,
              data |-> ("Name" :> a.name) @@ ("Description" :> a.description)
                       @@ ("ScheduleState" :> a.state)
                       @@ ("PlanEstimate" :> a.estimate)
                       @@ ("Priority" :> a.priority)])

UpdateStoryStart(a) ==
  IF DOMAIN UpdateData(a) = {}
  THEN Immediate(ToolResult(
         <<"No fields provided for update. Story was not modified.">>, {}, TRUE))
  ELSE ClientCall("updateStory", [id |-> a.id, data |-> UpdateData(a)])

ToolStart(op, a) ==
  CASE op = "createStory" -> ClientCall("createStory", [data |-> StoryData(a)])
    [] op = "updateStory" -> UpdateStoryStart(a)
    [] op = "deleteStory" -> ClientCall("deleteStory", a)
    [] op = "createRelationship" -> CreateRelationshipStart(a)
    [] op = "removeRelationship" -> ClientCall("removeRelationship", a)
    [] op = "getRelationships" -> ClientCall("getRelationships", a)

\* `${v}` for a value read from a response
ValueText(v) ==
  CASE v.kind = "null" -> <<"undefined">>
    [] v.kind = "text" -> v.text
    [] v.kind = "number" -> NumToText(v.value)
    [] OTHER -> <<"[object Object]">>

ListFields ==
  {"Predecessors", "Successors", "Children", "Blocked", "Blocker", "Duplicates"}

\* artifact.F._tagsNameArray || []
NamesOrEmpty(v) ==
  IF Truthy(Get(v, "_tagsNameArray")) THEN Get(v, "_tagsNameArray")
  ELSE JsArray(<<>>)

\* relationships.Parent = artifact.Parent._refObjectName is written out by
\* JSON.stringify unless the name is undefined
ParentWritten(artifact) ==
  /\ Truthy(Get(artifact, "Parent"))
  /\ Get(artifact, "Parent").kind = "object"
  /\ "_refObjectName" \in DOMAIN Get(artifact, "Parent").fields

\* relationships with a key for every list field, empty when the artifact
\* has none
RelationshipsFilled(artifact) ==
  [f \in ListFields \cup (IF ParentWritten(artifact) THEN {"Parent"} ELSE {}) |->
     IF f = "Parent" THEN Get(Get(artifact, "Parent"), "_refObjectName")
     ELSE NamesOrEmpty(Get(artifact, f))]

\* relationships of the getRelationships tool, from the artifact, as
\* JSON.stringify writes it
Relationships(artifact) ==
  LET lists == {f \in ListFields : Truthy(Get(artifact, f))}
      keys == lists \cup (IF ParentWritten(artifact) THEN {"Parent"} ELSE {})
  IN [f \in keys |->
        IF f = "Parent" THEN Get(Get(artifact, "Parent"), "_refObjectName")
        ELSE NamesOrEmpty(Get(artifact, f))]

\* What a handler makes of the settled client call
CreateStoryFinish(a, settled) ==
  IF settled.kind = "throw" THEN ToolCatch("createStory", settled.error)
  ELSE IF ~CanRead(settled.value)
  THEN ToolCatch("createStory", TypeError("FormattedID"))
  ELSE ToolResult(<<"Successfully created story \"">> \o a.name
                  \o <<"\" with ID ">>
                  \o ValueText(Get(settled.value, "FormattedID")), {}, FALSE)

GetRelationshipsFinish(a, settled) ==
  IF settled.kind = "throw" THEN ToolCatch("getRelationships", settled.error)
  ELSE IF ~CanRead(settled.value)
  THEN ToolCatch("getRelationships", TypeError("HierarchicalRequirement"))
  ELSE LET hr == Get(settled.value, "HierarchicalRequirement")
           artifact == IF Truthy(hr) THEN hr ELSE JsObject(NoFields)
       IN ToolResult(<<"Relationships for ">> \o a.artifactId \o <<":\n">>,
                     {Relationships(artifact)}, FALSE)

ToolFinish(op, a, settled) ==
  CASE op = "createStory" -> CreateStoryFinish(a, settled)
    [] op = "getRelationships" -> GetRelationshipsFinish(a, settled)
    [] settled.kind = "throw" -> ToolCatch(op, settled.error)
    [] op = "updateStory" ->
         ToolResult(<<"Successfully updated story ">> \o a.id, {}, FALSE)
    [] op = "deleteStory" ->
         ToolResult(<<"Successfully deleted story ">> \o a.id, {}, FALSE)
    [] op = "createRelationship" ->
         ToolResult(<<"Successfully created ", a.relationshipType,
                      " relationship from ">> \o a.sourceId \o <<" to ">>
                    \o a.targetId, {}, FALSE)
    [] op = "removeRelationship" ->
         ToolResult(<<"Successfully removed ", a.relationshipType,
                      " relationship from ">> \o a.sourceId \o <<" to ">>
                    \o a.targetId, {}, FALSE)

\* The timer of the updateStory tool's Promise.race
UpdateTimeoutResult ==
  ToolCatch("updateStory",
            [axios |-> FALSE, response |-> {}, request |-> FALSE,
             message |-> <<"Story update timed out after 30 seconds">>])

\* ------------------------------------------------- the stories resource

\* What a resource handler returns
ResourceResult(contents, meta) ==
  [kind |-> "resource", contents |-> contents, meta |-> meta]

\* handleStories, from the settled getStories call to its result
HandleStories(settled) ==
  IF settled.kind = "throw"
  THEN ResourceResult(<<>>,
         "error" :> JsText(<<"Failed to fetch stories: ">> \o settled.error.message))
  ELSE LET data == settled.value
       IN IF ~Truthy(data) \/ ~Truthy(Get(data, "Results"))
          THEN ResourceResult(<<>>, "message" :> JsText(<<"No stories found">>))
          ELSE LET results == Get(data, "Results").items
                   length == JsNumber(Len(results))
               IN ResourceResult(
                    [i \in 1..Len(results) |->
                       [uri |-> <<"rally://story/">>
                                \o ValueText(Get(results[i], "ObjectID")),
                        text |-> results[i]]],
                    ("total" :> JsOr(Get(data, "TotalResultCount"), length))
                    @@ ("pageSize" :> JsOr(Get(data, "PageSize"), length))
                    @@ ("startIndex" :> JsOr(Get(data, "StartIndex"), JsNumber(1)))
                    @@ ("hasMore" :>
                          JsLess(JsPlus(Get(data, "StartIndex"),
                                        Get(data, "PageSize")),
                                 Get(data, "TotalResultCount"))))

\* ------------------------------------------------- the in-memory double

\* An entry of MockRallyClient.relationships; parent is null ({}) or an id
MockEntry(predecessors, successors, children, parent) ==
  [predecessors |-> predecessors, successors |-> successors,
   children |-> children, parent |-> parent,
   blocked |-> <<>>, blockers |-> <<>>]

\* The entry createRelationship initializes for an id it does not know
MockEmpty == MockEntry(<<>>, <<>>, <<>>, {})

\* this.relationships after the constructor of MockRallyClient
MockConstructed ==
  (<<"US1">> :> MockEntry(<<(<<"US2">>)>>, <<>>, <<(<<"US3">>), (<<"US4">>)>>, {}))
  @@ (<<"US2">> :> MockEntry(<<>>, <<(<<"US1">>)>>, <<>>, {}))
  @@ (<<"US3">> :> MockEntry(<<>>, <<>>, <<>>, {<<"US1">>}))
  @@ (<<"US4">> :> MockEntry(<<>>, <<>>, <<>>, {<<"US1">>}))

\* The two lists a kind of the double's switches writes: the source's and
\* the target's; none for Parent and Child (handled apart) and for the kinds
\* the switches do not name
MockLists(relationshipType) ==
  CASE relationshipType = "Predecessor" ->
         {[own |-> "predecessors", other |-> "successors"]}
    [] relationshipType = "Successor" ->
         {[own |-> "successors", other |-> "predecessors"]}
    [] relationshipType = "Blocker" ->
         {[own |-> "blockers", other |-> "blocked"]}
    [] relationshipType = "Blocked" ->
         {[own |-> "blocked", other |-> "blockers"]}
    [] OTHER -> {}

\* list.push(x) and list.filter(id => id !== x) on a field of an entry
MockPush(rel, id, field, x) == [rel EXCEPT ![id][field] = Append(@, x)]
MockFilter(rel, id, field, x) ==
  [rel EXCEPT ![id][field] = SelectSeq(@, LAMBDA y : y # x)]

\* if (!this.relationships[id]) this.relationships[id] = {...}
MockEnsure(rel, id) == IF id \in DOMAIN rel THEN rel ELSE rel @@ (id :> MockEmpty)

\* MockRallyClient.createRelationship: this.relationships afterwards
MockCreateRelationship(rel, sourceId, targetId, relationshipType) ==
  LET r == MockEnsure(MockEnsure(rel, sourceId), targetId)
  IN CASE MockLists(relationshipType) # {} ->
            LET l == The(MockLists(relationshipType))
            IN MockPush(MockPush(r, sourceId, l.own, targetId),
                        targetId, l.other, sourceId)
       [] relationshipType = "Parent" ->
            MockPush([r EXCEPT ![sourceId].parent = {targetId}],
                     targetId, "children", sourceId)
       [] relationshipType = "Child" ->
            [MockPush(r, sourceId, "children", targetId)
               EXCEPT ![targetId].parent = {sourceId}]
       [] OTHER -> r

\* MockRallyClient.removeRelationship: this.relationships afterwards
MockRemoveRelationship(rel, sourceId, targetId, relationshipType) ==
  IF sourceId \notin DOMAIN rel \/ targetId \notin DOMAIN rel THEN rel
  ELSE CASE MockLists(relationshipType) # {} ->
              LET l == The(MockLists(relationshipType))
              IN MockFilter(MockFilter(rel, sourceId, l.own, targetId),
                            targetId, l.other, sourceId)
         [] relationshipType = "Parent" ->
              MockFilter([rel EXCEPT ![sourceId].parent = {}],
                         targetId, "children", sourceId)
         [] relationshipType = "Child" ->
              [MockFilter(rel, sourceId, "children", targetId)
                 EXCEPT ![targetId].parent = {}]
         [] OTHER -> rel

\* The fields of the response of the double's getRelationships: a list
\* field only when the list is not empty, Parent only when it is set
MockFields(e) ==
  LET lists == ("Predecessors" :> e.predecessors)
               @@ ("Successors" :> e.successors)
               @@ ("Children" :> e.children)
               @@ ("Blocked" :> e.blocked)
               @@ ("Blocker" :> e.blockers)
      keys == {f \in DOMAIN lists : Len(lists[f]) > 0}
              \cup (IF e.parent # {} THEN {"Parent"} ELSE {})
  IN [f \in keys |->
        IF f = "Parent" THEN JsObject("_refObjectName" :> JsText(The(e.parent)))
        ELSE NamesOf(lists[f])]

\* getRelationships of the double with every list field in the response,
\* the empty ones too
MockGetRelationshipsListing(rel, artifactId) ==
  IF artifactId \notin DOMAIN rel
  THEN JsObject("HierarchicalRequirement" :> JsObject(NoFields))
  ELSE JsObject("HierarchicalRequirement" :>
         JsObject(MockFields(rel[artifactId])
                  @@ ("Predecessors" :> NamesOf(rel[artifactId].predecessors))))

\* MockRallyClient.getRelationships
MockGetRelationships(rel, artifactId) ==
  IF artifactId \notin DOMAIN rel
  THEN JsObject("HierarchicalRequirement" :> JsObject(NoFields))
  ELSE JsObject("HierarchicalRequirement" :> JsObject(MockFields(rel[artifactId])))

\* { success: true }
MockSuccess == JsObject("success" :> JsText(<<"true">>))

\* The snapshot the getRelationships tool answers with, run on the double
MockSnapshot(rel, artifactId) ==
  The(GetRelationshipsFinish([artifactId |-> artifactId],
        Returned(MockGetRelationships(rel, artifactId))).content[1].json)

\* ------------------------------------------------------ the HTTP sessions

\* Properties that the object literal {} of the session map inherits from
\* Object.prototype
ObjectPrototypeKeys == {"constructor", "toString", "__proto__"}

\* Values of sessionIdGenerator; a run's values are taken not to repeat
SessionIds == {"s1", "s2", "s3", "s4"}

\* The mcp-session-id header of a request: absent, or a value
SessionHeaders == {{}, {"s1"}, {"s2"}, {"zz"}, {"constructor"}}

\* transports[sessionId]: an own entry (a transport), a property inherited
\* from Object.prototype (truthy, and no transport), or undefined
Own(t) == [kind |-> "transport", transport |-> t]
Inherited == [kind |-> "inherited"]
Undefined == [kind |-> "undefined"]

Lookup(map, sessionId) ==
  IF sessionId \in DOMAIN map THEN Own(map[sessionId])
  ELSE IF sessionId \in ObjectPrototypeKeys THEN Inherited
  ELSE Undefined

\* sessionId && transports[sessionId] / !sessionId || !transports[sessionId]
Found(map, header) ==
  IF header = {} THEN Undefined ELSE Lookup(map, The(header))

\* delete transports[sessionId]
Delete(map, sessionId) == [s \in DOMAIN map \ {sessionId} |-> map[s]]

\* A StreamableHTTPServerTransport: its sessionId (unset until the session
\* is initialized) and whether it has closed
Transport(sessionId) == [sessionId |-> sessionId, closed |-> FALSE]

\* What became of a request: the header it carried, whether the map had an
\* own entry for it, the transport that handled it, whether a transport was
\* created for it, and the outcome ("handled" by a transport, "400" from
\* the route, or "error" when the handler threw)
Handling(method, header, known, by, createdNew, outcome) ==
  [method |-> method, header |-> header, known |-> known, by |-> by,
   createdNew |-> createdNew, outcome |-> outcome]

NoRequest == Handling("none", {}, FALSE, {}, FALSE, "none")

\* startHttpServer has set up the routes: no transport, an empty map
HttpStarted == [transports |-> NoFields, created |-> <<>>, last |-> NoRequest]

\* transport.onclose: if (transport.sessionId) delete transports[...]
OnClose(h, t) ==
  [h EXCEPT !.created[t].closed = TRUE,
            !.transports = IF h.created[t].sessionId # {}
                           THEN Delete(@, The(h.created[t].sessionId)) ELSE @]

\* ------------------------------------------------------------------ state

VARIABLES
  workspace,           \* RallyClient.workspace (config.rallyWorkspace)
  project,             \* RallyClient.project (config.rallyProject), optional
  workspaceIsNumeric,  \* RallyClient.workspaceIsNumeric
  workspaceRef,        \* RallyClient.workspaceRef, optional
  calls,               \* the operations in progress, one per slot
  main,                \* where main() stands and what it has logged
  resolutions,         \* history: resolutions triggered by story operations
  relationships,       \* MockRallyClient.relationships
  session,             \* history: the tool calls made on the double
  http                 \* startHttpServer: the session map and its transports

vars == <<workspace, project, workspaceIsNumeric, workspaceRef, calls,
          main, resolutions, relationships, session, http>>

\* What the operations of RallyClient leave alone
outside == <<main, resolutions, relationships, session, http>>

\* "startup" is main's background validation, "request" the operation a
\* client of the server has asked for
Slots == {"startup", "request"}

\* A call: how it was entered (a tool handler, a client method, or
\* validateCredentials itself), where it waits (pc), the requests it has
\* issued, the outcome of the validateCredentials run it made (vc), the
\* client call the handler made and its settlement, and the handler's result.
\* Two fields record history for the properties: the answers its
\* validateCredentials run has received (got) and this.workspaceRef when the
\* call began (ref0).
Idle ==
  [entry |-> "none", op |-> "none", args |-> NoFields, pc |-> "idle",
   reqs |-> <<>>, got |-> <<>>, ref0 |-> {}, validations |-> 0, vc |-> {},
   clientOp |-> "none", clientArgs |-> NoFields, clientCalls |-> 0,
   client |-> {}, result |-> {}]

Free(c) == c.pc = "idle"

\* A settlement that issues the request once more when it has failed
SettleRetrying(c, settled) ==
  IF settled.kind = "throw" /\ c.pc = "request" /\ Len(c.reqs) < 5
  THEN [c EXCEPT !.reqs = Append(@, @[Len(@)])]
  ELSE [c EXCEPT !.pc = "done", !.client = {settled},
                 !.result = IF c.entry = "tool" /\ c.result = {}
                            THEN {ToolFinish(c.op, c.args, settled)} ELSE @]

\* The client method has settled: the handler (if it has not answered yet)
\* answers, and the call is over
Settle(c, settled) ==
  [c EXCEPT !.pc = "done", !.client = {settled},
            !.result = IF c.entry = "tool" /\ c.result = {}
                       THEN {ToolFinish(c.op, c.args, settled)}
                       ELSE IF c.entry = "resource"
                       THEN {HandleStories(settled)} ELSE @]

\* A client method after its workspace check: it prepares and issues its
\* request, or throws
Proceed(c, ref, proj) ==
  LET p == Prepare(c.clientOp, c.clientArgs, ref, proj)
  IN IF p.kind = "throw"
     THEN Settle(c, Thrown(ClientCatch(c.clientOp, c.clientArgs, p.error)))
     ELSE [c EXCEPT !.pc = "request", !.reqs = Append(@, p.request)]

\* validateCredentials up to its first await: it issues the ping
StartValidation(c) ==
  [c EXCEPT !.pc = "ping", !.reqs = Append(@, PingRequest),
            !.validations = @ + 1]

\* A client method that validates on every call, resolved or not
EnterClientAlways(c, ref, proj) == StartValidation(c)

\* A client method up to its first await:
\* if (!this.workspaceRef) await this.validateCredentials()
EnterClient(c, ref, proj) ==
  IF ref = {} THEN StartValidation(c) ELSE Proceed(c, ref, proj)

\* validateCredentials has returned (or thrown) to whoever awaited it; a
\* client method ignores the outcome it returns and goes on
ValidationDone(c, outcome, ref, proj) ==
  LET d == [c EXCEPT !.vc = {outcome}]
  IN IF c.entry = "validate" THEN [d EXCEPT !.pc = "done"]
     ELSE IF outcome.kind = "throw"
     THEN Settle(d, Thrown(ClientCatch(c.clientOp, c.clientArgs, outcome.error)))
     ELSE Proceed(d, ref, proj)

\* A stage of validateCredentials has ended: the next request, or the return
Advance(c, stage, token, isNumeric, proj) ==
  CASE stage.next = "query" ->
         [c EXCEPT !.pc = "query",
                   !.reqs = Append(@, QueryRequest(token, isNumeric))]
    [] stage.next = "list" ->
         [c EXCEPT !.pc = "list", !.reqs = Append(@, ListRequest)]
    [] OTHER -> ValidationDone(c, stage.outcome, stage.ref, proj)

\* ---------------------------------------------------------------- actions

\* The state after new RallyClient(config), for the configurations `tokens`
Constructed(tokens) ==
  /\ workspace \in tokens
  /\ project \in Projects
  /\ workspaceIsNumeric = ConstructorIsNumeric(workspace)
  /\ workspaceRef = {}
  /\ calls = [s \in Slots |-> Idle]
  /\ main = [pc |-> "boot", logged |-> "none"]
  /\ resolutions = 0
  /\ relationships = MockConstructed
  /\ session = <<>>
  /\ http = HttpStarted

Begin(s, c) ==
  /\ Free(calls[s])
  /\ calls' = [calls EXCEPT ![s] = [c EXCEPT !.ref0 = workspaceRef]]
  /\ UNCHANGED <<workspace, project, workspaceIsNumeric, workspaceRef>>

\* A tool handler is invoked with schema-validated arguments
CallTool(s) ==
  /\ \E op \in Tools : \E a \in ToolArgs(op) :
       LET start == ToolStart(op, a)
           c == [Idle EXCEPT !.entry = "tool", !.op = op, !.args = a]
       IN Begin(s,
            IF start.kind = "result"
            THEN [c EXCEPT !.pc = "done", !.result = {start.result}]
            ELSE EnterClient([c EXCEPT !.clientOp = start.op,
                                       !.clientArgs = start.args,
                                       !.clientCalls = 1],
                             workspaceRef, project))
  /\ UNCHANGED outside

\* A relationship method of the client is called directly
CallClient(s) ==
  /\ \E op \in {"createRelationship", "removeRelationship"} :
       \E a \in [sourceId : Ids, targetId : Ids,
                 relationshipType : RelationshipTypes \cup UnknownTypes] :
         Begin(s, EnterClient([Idle EXCEPT !.entry = "client", !.op = op,
                                           !.args = a, !.clientOp = op,
                                           !.clientArgs = a, !.clientCalls = 1],
                              workspaceRef, project))
  /\ UNCHANGED outside

\* The public methods of RallyClient that need the workspace reference
ClientMethods ==
  {"getStories", "getStory", "createStory", "updateStory", "deleteStory",
   "getRelationships", "createRelationship", "removeRelationship"}

\* The Project a caller of createStory names itself
ExplicitProject == [_ref |-> <<"/project/", "p1">>]

\* Arguments of the direct calls
MethodArgs(op) ==
  CASE op = "getStories" ->
         [queryParams : {NoFields, "query" :> {<<"(Name contains \"S\")">>},
                         ("workspace" :> {<<"/workspace/", "9">>})
                           @@ ("pagesize" :> {<<"20">>}),
                         "project" :> {<<"/project/", "p1">>}}]
    [] op = "getStory" -> [id : Ids]
    [] op = "createStory" ->
         [data : {"Name" :> {<<"S">>},
                  ("Name" :> {<<"S">>}) @@ ("Project" :> {ExplicitProject}),
                  ("Name" :> {<<"S">>}) @@ ("Description" :> {<<"d">>})
                    @@ ("Project" :> {})}]
    [] op = "updateStory" ->
         [id : Ids, data : {"Name" :> {<<"S">>}, "PlanEstimate" :> {0}}]
    [] op = "deleteStory" -> [id : Ids]
    [] op = "getRelationships" -> [artifactId : Ids]
    [] OTHER ->
         [sourceId : Ids, targetId : Ids, relationshipType : RelationshipTypes]

\* A method of the client is called directly
CallMethod(s) ==
  /\ \E op \in ClientMethods : \E a \in MethodArgs(op) :
       Begin(s, EnterClient([Idle EXCEPT !.entry = "client", !.op = op,
                                         !.args = a, !.clientOp = op,
                                         !.clientArgs = a, !.clientCalls = 1],
                            workspaceRef, project))
  /\ UNCHANGED outside

\* validateCredentials is called directly
CallValidate(s) ==
  /\ Begin(s, StartValidation([Idle EXCEPT !.entry = "validate",
                                           !.op = "validateCredentials"]))
  /\ UNCHANGED outside

Step(s, answer, stage) ==
  /\ workspaceRef' = stage.ref
  /\ calls' = [calls EXCEPT ![s] =
                 Advance([calls[s] EXCEPT !.got = Append(@, answer)], stage,
                         workspace, workspaceIsNumeric, project)]
  /\ UNCHANGED <<workspace, project, workspaceIsNumeric>>
  /\ UNCHANGED outside

\* GET /subscription is answered, or its 30 second timer fires
PingAnswer(s, answers) ==
  /\ calls[s].pc = "ping"
  /\ \E answer \in answers : Step(s, answer, AfterPing(answer, workspaceRef))

\* The first GET /workspace is answered, or its timer fires
QueryAnswer(s, answers) ==
  /\ calls[s].pc = "query"
  /\ \E answer \in answers : Step(s, answer, AfterQuery(answer, workspaceRef))

\* The workspace list is answered, or its timer fires
ListAnswer(s, answers) ==
  /\ calls[s].pc = "list"
  /\ \E answer \in answers :
       Step(s, answer,
            AfterList(answer, workspaceRef, workspace, workspaceIsNumeric))

\* The request of the client method is answered
RequestAnswer(s) ==
  /\ calls[s].pc = "request"
  /\ \E answer \in RequestAnswers(calls[s].clientOp) :
       calls' = [calls EXCEPT ![s] =
                   Settle(calls[s],
                          ClientSettle(calls[s].clientOp, calls[s].clientArgs,
                                       answer))]
  /\ UNCHANGED <<workspace, project, workspaceIsNumeric, workspaceRef>>
  /\ UNCHANGED outside

\* The 30 second timer of the updateStory handler fires while the client
\* call is pending. The timer of the ping was set earlier in the same turn
\* with the same delay, so the ping stage is over by then.
UpdateTimeout(s) ==
  /\ calls[s].entry = "tool"
  /\ calls[s].op = "updateStory"
  /\ calls[s].pc \in {"query", "list", "request"}
  /\ calls[s].result = {}
  /\ calls' = [calls EXCEPT ![s].result = {UpdateTimeoutResult}]
  /\ UNCHANGED <<workspace, project, workspaceIsNumeric, workspaceRef>>
  /\ UNCHANGED outside

\* The settled call leaves: its result has been handed to the caller
Complete(s) ==
  /\ calls[s].pc = "done"
  /\ calls' = [calls EXCEPT ![s] = Idle]
  /\ UNCHANGED <<workspace, project, workspaceIsNumeric, workspaceRef>>
  /\ UNCHANGED outside

\* ------------------------------------------------ the tools and the client

\* The backend behaviours the tool and client operations are run against:
\* resolution succeeds at the first query, by substring or by fallback (with
\* and without a usable id), finds nothing, or fails.
ResultsData(rs) ==
  {[QueryResult |-> {[Results |-> {rs}, Errors |-> {<<>>}]}]}

ToolTokens == {<<"1">>, <<"a", "B">>}

ToolPingAnswers ==
  {Resolved(200, {[QueryResult |-> {}]}), Rejected(HttpError(401)),
   Rejected(TimerError("Subscription request"))}

ToolQueryAnswers ==
  {Resolved(200, ResultsData(<<WsA>>)), Resolved(200, ResultsData(<<>>)),
   Rejected(HttpError(500))}

ToolListAnswers ==
  {Resolved(200, ResultsData(<<WsB, WsC>>)), Resolved(200, ResultsData(<<WsD>>)),
   Resolved(200, ResultsData(<<>>)), Rejected(NoResponseError)}

Init == Constructed(ToolTokens)

\* One client instance serving one operation at a time
Next ==
  \/ CallTool("request")
  \/ CallClient("request")
  \/ PingAnswer("request", ToolPingAnswers)
  \/ QueryAnswer("request", ToolQueryAnswers)
  \/ ListAnswer("request", ToolListAnswers)
  \/ RequestAnswer("request")
  \/ UpdateTimeout("request")
  \/ Complete("request")

Spec == Init /\ [][Next]_vars

\* ----------------------------------------------------- validateCredentials

ValidateInit == Constructed(Tokens)

\* validateCredentials called on its own, against every backend behaviour
ValidateNext ==
  \/ CallValidate("request")
  \/ PingAnswer("request", PingAnswers)
  \/ QueryAnswer("request", QueryAnswers)
  \/ ListAnswer("request", ListAnswers)
  \/ Complete("request")

SpecValidate == ValidateInit /\ [][ValidateNext]_vars

\* ------------------------------------------------------------ the server

\* main up to its first await: the client is constructed and
\* validateCredentials is started in the background (it issues the ping)
MainStart ==
  /\ main.pc = "boot"
  /\ Begin("startup", StartValidation([Idle EXCEPT !.entry = "validate",
                                                   !.op = "validateCredentials"]))
  /\ main' = [main EXCEPT !.pc = "setup"]
  /\ UNCHANGED <<resolutions, relationships, session, http>>

\* setupServer with the background validation awaited first
MainSetupAwaiting ==
  /\ main.pc = "setup"
  /\ calls["startup"].pc = "done"
  /\ main' = [main EXCEPT !.pc = "transport"]
  /\ UNCHANGED <<workspace, project, workspaceIsNumeric, workspaceRef, calls,
                 resolutions, relationships, session, http>>

\* await setupServer(rallyClient): the handlers are registered
MainSetup ==
  /\ main.pc = "setup"
  /\ main' = [main EXCEPT !.pc = "transport"]
  /\ UNCHANGED <<workspace, project, workspaceIsNumeric, workspaceRef, calls,
                 resolutions, relationships, session, http>>

\* await startHttpServer / startStdioServer: the transport is up, main has
\* attached its handler to the validation promise, and the server serves
MainTransport ==
  /\ main.pc = "transport"
  /\ main' = [main EXCEPT !.pc = "serving"]
  /\ UNCHANGED <<workspace, project, workspaceIsNumeric, workspaceRef, calls,
                 resolutions, relationships, session, http>>

\* validationPromise.then: an info line for a valid outcome, warnings for an
\* invalid one (a rejection was turned into an invalid outcome by the catch)
MainReport ==
  /\ main.pc = "serving"
  /\ main.logged = "none"
  /\ calls["startup"].pc = "done"
  /\ LET outcome == The(calls["startup"].vc)
     IN main' = [main EXCEPT !.logged =
                   IF outcome.kind = "return" /\ outcome.valid
                   THEN "info" ELSE "warn"]
  /\ UNCHANGED <<workspace, project, workspaceIsNumeric, workspaceRef, calls,
                 resolutions, relationships, session, http>>

StoryMethods == {"createStory", "updateStory", "deleteStory"}

StoryArgs(op) ==
  CASE op = "createStory" -> [data |-> "Name" :> {<<"S">>}]
    [] op = "updateStory" -> [id |-> <<"US1">>, data |-> "Name" :> {<<"S">>}]
    [] op = "deleteStory" -> [id |-> <<"US1">>]

\* A story operation of the client is called while the server serves
CallStory(s) ==
  /\ main.pc = "serving"
  /\ workspaceRef # {} \/ resolutions < MaxResolutions
  /\ \E op \in StoryMethods :
       Begin(s, EnterClient([Idle EXCEPT !.entry = "client", !.op = op,
                                         !.args = StoryArgs(op),
                                         !.clientOp = op,
                                         !.clientArgs = StoryArgs(op),
                                         !.clientCalls = 1],
                            workspaceRef, project))
  /\ resolutions' = IF workspaceRef = {} THEN resolutions + 1 ELSE resolutions
  /\ UNCHANGED <<main, relationships, session, http>>

\* The backend behaviours the server is run against
ServerPingAnswers ==
  {Resolved(200, {[QueryResult |-> {}]}), Rejected(HttpError(401))}

ServerQueryAnswers ==
  {Resolved(200, ResultsData(<<WsA>>)), Resolved(200, ResultsData(<<>>))}

ServerListAnswers ==
  {Resolved(200, ResultsData(<<WsB, WsC>>)), Rejected(NoResponseError)}

ServerNext ==
  \/ MainStart
  \/ MainSetup
  \/ MainTransport
  \/ MainReport
  \/ PingAnswer("startup", ServerPingAnswers)
  \/ QueryAnswer("startup", ServerQueryAnswers)
  \/ ListAnswer("startup", ServerListAnswers)
  \/ CallStory("request")
  \/ PingAnswer("request", ServerPingAnswers)
  \/ QueryAnswer("request", ServerQueryAnswers)
  \/ ListAnswer("request", ServerListAnswers)
  \/ RequestAnswer("request")
  \/ Complete("request")

\* main runs on: none of its awaits waits for an input
SpecServer ==
  /\ Init
  /\ [][ServerNext]_vars
  /\ WF_vars(MainStart) /\ WF_vars(MainSetup) /\ WF_vars(MainTransport)

\* ------------------------------------------- the tools on the double

\* The artifacts the calls name: US9 is unknown to the double
MockSources == {<<"US3">>, <<"US9">>}
MockTargets == {<<"US2">>, <<"US3">>}

MockArgs ==
  [sourceId : MockSources, targetId : MockTargets,
   relationshipType : RelationshipTypes]

\* A tool call on the double, as the session records it
MockCalled(op, a, result) ==
  [op |-> op, args |-> a, before |-> relationships, result |-> result]

\* The createRelationship tool, registered on the double
MockCreateCall ==
  /\ Len(session) < MaxOps
  /\ \E a \in MockArgs :
       LET start == CreateRelationshipStart(a)
       IN IF start.kind = "result"
          THEN /\ relationships' = relationships
               /\ session' = Append(session,
                     MockCalled("createRelationship", a, start.result))
          ELSE /\ relationships' =
                    MockCreateRelationship(relationships, a.sourceId,
                                           a.targetId, a.relationshipType)
               /\ session' = Append(session,
                     MockCalled("createRelationship", a,
                       ToolFinish("createRelationship", a, Returned(MockSuccess))))
  /\ UNCHANGED <<workspace, project, workspaceIsNumeric, workspaceRef, calls,
                 main, resolutions, http>>

\* The removeRelationship tool, registered on the double
MockRemoveCall ==
  /\ Len(session) < MaxOps
  /\ \E a \in MockArgs :
       /\ relationships' =
            MockRemoveRelationship(relationships, a.sourceId, a.targetId,
                                   a.relationshipType)
       /\ session' = Append(session,
            MockCalled("removeRelationship", a,
              ToolFinish("removeRelationship", a, Returned(MockSuccess))))
  /\ UNCHANGED <<workspace, project, workspaceIsNumeric, workspaceRef, calls,
                 main, resolutions, http>>

MockInit == Constructed({<<"1">>}) /\ project = {}

MockNext == MockCreateCall \/ MockRemoveCall

SpecMock == MockInit /\ [][MockNext]_vars

\* -------------------------------------------------- the client on its own

\* The methods of one client instance called one after another
ClientNext ==
  \/ CallMethod("request")
  \/ PingAnswer("request", ToolPingAnswers)
  \/ QueryAnswer("request", ToolQueryAnswers)
  \/ ListAnswer("request", ToolListAnswers)
  \/ RequestAnswer("request")
  \/ Complete("request")

SpecClient == Init /\ [][ClientNext]_vars

\* ------------------------------------------------- the HTTP server's routes

\* app.post('/mcp'): a known session's transport is reused; otherwise a
\* transport is created and connected, and handleRequest initializes the
\* session (onsessioninitialized registers the transport) when the request is
\* an initialize request, and answers an error when it is not
HttpPost ==
  /\ \E header \in SessionHeaders :
       LET found == Found(http.transports, header)
           known == header # {} /\ The(header) \in DOMAIN http.transports
           t == Len(http.created) + 1
       IN CASE found.kind = "transport" ->
                 http' = [http EXCEPT !.last =
                            Handling("POST", header, known, {found.transport},
                                     FALSE, "handled")]
            [] found.kind = "inherited" ->
                 \* transport.handleRequest is not a function
                 http' = [http EXCEPT !.last =
                            Handling("POST", header, known, {}, FALSE, "error")]
            [] OTHER ->
                 /\ Len(http.created) < MaxTransports
                 /\ \/ \E sid \in SessionIds :
                         /\ \A i \in 1..Len(http.created) :
                              http.created[i].sessionId # {sid}
                         /\ http' = [transports |-> (sid :> t) @@ http.transports,
                                     created |-> Append(http.created, Transport({sid})),
                                     last |-> Handling("POST", header, known, {t},
                                                       TRUE, "handled")]
                    \/ http' = [http EXCEPT
                                  !.created = Append(@, Transport({})),
                                  !.last = Handling("POST", header, known, {t},
                                                    TRUE, "handled")]
  /\ UNCHANGED <<workspace, project, workspaceIsNumeric, workspaceRef, calls,
                 main, resolutions, relationships, session>>

\* handleSessionRequest (GET and DELETE on /mcp); the transport closes when
\* it handles a DELETE
HttpSessionRequest ==
  /\ \E method \in {"GET", "DELETE"} : \E header \in SessionHeaders :
       LET found == Found(http.transports, header)
           known == header # {} /\ The(header) \in DOMAIN http.transports
       IN CASE found.kind = "undefined" ->
                 http' = [http EXCEPT !.last =
                            Handling(method, header, known, {}, FALSE, "400")]
            [] found.kind = "inherited" ->
                 http' = [http EXCEPT !.last =
                            Handling(method, header, known, {}, FALSE, "error")]
            [] OTHER ->
                 LET handled == [http EXCEPT !.last =
                                   Handling(method, header, known,
                                            {found.transport}, FALSE, "handled")]
                 IN http' = IF method = "DELETE"
                            THEN OnClose(handled, found.transport) ELSE handled
  /\ UNCHANGED <<workspace, project, workspaceIsNumeric, workspaceRef, calls,
                 main, resolutions, relationships, session>>

\* A transport closes on its own (its connection or the server goes down)
HttpClose ==
  /\ \E t \in 1..Len(http.created) :
       /\ ~http.created[t].closed
       /\ http' = OnClose(http, t)
  /\ UNCHANGED <<workspace, project, workspaceIsNumeric, workspaceRef, calls,
                 main, resolutions, relationships, session>>

HttpInit == Constructed({<<"1">>}) /\ project = {}

HttpNext == HttpPost \/ HttpSessionRequest \/ HttpClose

SpecHttp == HttpInit /\ [][HttpNext]_vars

\* --------------------------------------------- the stories resource read

\* A page of n stories as the backend answers it; a field that is JsNullish
\* is missing from the answer
StoriesPage(n, total, pageSize, startIndex) ==
  LET fields == ("Results" :>
                   JsArray([i \in 1..n |-> JsObject("ObjectID" :> JsNumber(i))]))
                @@ ("TotalResultCount" :> total) @@ ("PageSize" :> pageSize)
                @@ ("StartIndex" :> startIndex)
  IN JsObject([k \in {f \in DOMAIN fields : fields[f].kind # "null"} |-> fields[k]])

MaybeNumbers(from, to) == {JsNullish} \cup {JsNumber(n) : n \in from..to}

\* The numbers of a page agree: it holds no more stories than its size, and
\* its stories lie within the total
Consistent(n, total, pageSize, startIndex) ==
  /\ pageSize.kind = "number" => n <= pageSize.value
  /\ total.kind = "number" => n <= total.value
  /\ (total.kind = "number" /\ startIndex.kind = "number")
       => startIndex.value + n - 1 <= total.value

StoriesBodies ==
  {JsNullish, JsObject(NoFields)}
  \cup {StoriesPage(q[1], q[2], q[3], q[4]) :
          q \in {r \in (0..MaxResults) \X MaybeNumbers(0, MaxTotal)
                        \X MaybeNumbers(1, MaxResults)
                        \X MaybeNumbers(1, MaxTotal) :
                    Consistent(r[1], r[2], r[3], r[4])}}

StoriesAnswers == RequestFailures \cup {Resolved(200, d) : d \in StoriesBodies}

\* rally://stories is read: handleStories copies the URL's search
\* parameters and calls getStories
ReadStories(s) ==
  /\ \E a \in MethodArgs("getStories") :
       Begin(s, EnterClient([Idle EXCEPT !.entry = "resource", !.op = "stories",
                                         !.args = a, !.clientOp = "getStories",
                                         !.clientArgs = a, !.clientCalls = 1],
                            workspaceRef, project))
  /\ UNCHANGED outside

\* GET /HierarchicalRequirement is answered
StoriesAnswer(s) ==
  /\ calls[s].pc = "request"
  /\ calls[s].clientOp = "getStories"
  /\ \E answer \in StoriesAnswers :
       calls' = [calls EXCEPT ![s] =
                   Settle(calls[s],
                          ClientSettle("getStories", calls[s].clientArgs, answer))]
  /\ UNCHANGED <<workspace, project, workspaceIsNumeric, workspaceRef>>
  /\ UNCHANGED outside

StoriesNext ==
  \/ ReadStories("request")
  \/ PingAnswer("request", ServerPingAnswers)
  \/ QueryAnswer("request", ServerQueryAnswers)
  \/ ListAnswer("request", ServerListAnswers)
  \/ StoriesAnswer("request")
  \/ Complete("request")

SpecStories == HttpInit /\ [][StoriesNext]_vars

\* ------------------------------------------------------------- properties

\* The operation in progress
Cur == calls["request"]

IsTool(op) == Cur.entry = "tool" /\ Cur.op = op
Answered == Cur.result # {}
ClientThrew == Cur.client # {} /\ The(Cur.client).kind = "throw"
ClientReturned == Cur.client # {} /\ The(Cur.client).kind = "return"

\* C1: the createRelationship tool called with sourceId = targetId answers
\* with isError set, never calls RallyClient.createRelationship and issues no
\* backend request (neither a mutation nor a workspace resolution request).
C1_SelfRelationshipRejected ==
  (IsTool("createRelationship") /\ Cur.args.sourceId = Cur.args.targetId)
    => /\ Answered
       /\ The(Cur.result).isError
       /\ Cur.clientCalls = 0
       /\ Cur.client = {}
       /\ Cur.reqs = <<>>
       /\ Cur.validations = 0

\* C1 witness: a self-relationship of kind Parent has been answered while
\* the workspace reference is still unresolved
C1_Witness ==
  /\ IsTool("createRelationship")
  /\ Cur.args.sourceId = <<"US1">> /\ Cur.args.targetId = <<"US1">>
  /\ Cur.args.relationshipType = "Parent"
  /\ workspaceRef = {}
  /\ Answered /\ The(Cur.result).isError

NoUpdateInput(a) ==
  /\ a.name = {} /\ a.description = {} /\ a.state = {}
  /\ a.estimate = {} /\ a.priority = {}

\* C2: the updateStory tool called with none of name, description, state,
\* estimate, priority answers with isError set without calling
\* RallyClient.updateStory and without any backend request; with at least
\* one of them provided it calls RallyClient.updateStory exactly once.
C2_UpdateNeedsAField ==
  IsTool("updateStory")
    => IF NoUpdateInput(Cur.args)
       THEN /\ Answered /\ The(Cur.result).isError
            /\ Cur.clientCalls = 0 /\ Cur.client = {} /\ Cur.reqs = <<>>
       ELSE Cur.clientCalls = 1 /\ Cur.clientOp = "updateStory"

\* C2 witness: an update with no field has been answered with an error
C2_Witness ==
  /\ IsTool("updateStory")
  /\ NoUpdateInput(Cur.args)
  /\ Answered /\ The(Cur.result).isError /\ Cur.clientCalls = 0

HasContent(r) ==
  /\ r.kind = "result"
  /\ Len(r.content) = 1
  /\ r.content[1].type = "text"

\* The handler failed while reading what the client returned
Unreadable ==
  /\ Cur.op \in {"createStory", "getRelationships"}
  /\ ClientReturned
  /\ ~CanRead(The(Cur.client).value)

\* The handler's own 30 second timer answered
TimedOut == Cur.op = "updateStory" /\ Cur.result = {UpdateTimeoutResult}

\* C3 as stated: every tool handler returns a content payload, and isError
\* is set exactly when the client call failed or validation rejected the
\* input; no exception escapes.
C3_ErrorIffClientFailed ==
  (Cur.entry = "tool" /\ Answered)
    => /\ HasContent(The(Cur.result))
       /\ The(Cur.result).isError <=> (Cur.clientCalls = 0 \/ ClientThrew)

\* C3 amended: every tool handler returns a content payload and no exception
\* escapes; isError is set exactly when validation rejected the input, the
\* client call failed, the handler could not read the value the client
\* returned (createStory or getRelationships given null/undefined), or the
\* 30 second timer of updateStory fired before the client call settled.
C3_ErrorIffFailedUnreadableOrTimedOut ==
  (Cur.entry = "tool" /\ Answered)
    => /\ HasContent(The(Cur.result))
       /\ The(Cur.result).isError
            <=> (Cur.clientCalls = 0 \/ ClientThrew \/ Unreadable \/ TimedOut)

\* C3 witness: a handler has answered with an error after its client call
\* threw
C3_Witness ==
  /\ Cur.entry = "tool" /\ Answered /\ ClientThrew
  /\ The(Cur.result).isError
  /\ Cur.op = "deleteStory"

\* The mapping table of the relationship kinds
TableCollection(kind) ==
  CASE kind = "Predecessor" -> "Predecessors"
    [] kind = "Successor" -> "Successors"
    [] kind = "Parent" -> "Parent"
    [] kind = "Child" -> "Children"
    [] kind = "Blocker" -> "Blockers"
    [] kind = "Blocked" -> "Blocked"
    [] kind = "Duplicate" -> "Duplicates"
    [] kind = "Duplicated" -> "Duplicated"

\* A relationship mutation has been prepared and its request issued
Mutating ==
  /\ Cur.clientOp \in {"createRelationship", "removeRelationship"}
  /\ Cur.clientArgs.relationshipType \in RelationshipTypes
  /\ Cur.pc \in {"request", "done"}
  /\ Cur.reqs # <<>>
  /\ Cur.reqs[Len(Cur.reqs)].method = "POST"

Mutation == Cur.reqs[Len(Cur.reqs)]
MutationFields == The(Mutation.body).HierarchicalRequirement

\* C4: createRelationship and removeRelationship write the same collection
\* for each kind, the one the table names, and treat Parent as the only
\* single-valued kind: a multi-valued kind is written as a tagged collection
\* instruction, Parent as a plain field.
C4_SameCollectionAndCardinality ==
  Mutating =>
    LET kind == Cur.clientArgs.relationshipType
        coll == TableCollection(kind)
    IN /\ DOMAIN MutationFields = {coll}
       /\ ("_type" \in DOMAIN MutationFields[coll]) <=> (kind # "Parent")

\* C4 witness: removeRelationship has issued its request for a Blocker
C4_Witness ==
  /\ Mutating
  /\ Cur.clientOp = "removeRelationship"
  /\ Cur.clientArgs.relationshipType = "Blocker"
  /\ "Blockers" \in DOMAIN MutationFields

TargetRef == <<"/", "HierarchicalRequirement", "/">> \o Cur.clientArgs.targetId

\* C5: the mutation is a POST to /HierarchicalRequirement/<sourceId> whose
\* body has exactly one field under HierarchicalRequirement: for Parent,
\* create sets it to a reference to the target and remove sets it to null
\* (present, not omitted); for every other kind, create sends
\* {_type: 'add', _ref: target} and remove {_type: 'remove', _ref: target}
\* under the collection of the kind.
C5_PayloadShape ==
  Mutating =>
    LET kind == Cur.clientArgs.relationshipType
        coll == TableCollection(kind)
        create == Cur.clientOp = "createRelationship"
    IN /\ Mutation.path
            = <<"/", "HierarchicalRequirement", "/">> \o Cur.clientArgs.sourceId
       /\ DOMAIN The(Mutation.body) = {"HierarchicalRequirement"}
       /\ DOMAIN MutationFields = {coll}
       /\ MutationFields[coll] =
            IF kind = "Parent"
            THEN IF create THEN [_ref |-> TargetRef] ELSE JsNull
            ELSE [_type |-> IF create THEN "add" ELSE "remove",
                  _ref |-> TargetRef]

\* C5 witness: removeRelationship has posted Parent: null
C5_Witness ==
  /\ Mutating
  /\ Cur.clientOp = "removeRelationship"
  /\ Cur.clientArgs.relationshipType = "Parent"
  /\ "Parent" \in DOMAIN MutationFields
  /\ MutationFields["Parent"] = JsNull

\* C6 as stated: a relationship method of the client called with a kind
\* outside the eight known kinds fails with an error and issues no request
\* at all, whether or not the workspace reference is resolved.
C6_UnknownKindNoRequest ==
  (/\ Cur.clientOp \in {"createRelationship", "removeRelationship"}
   /\ Cur.clientArgs.relationshipType \notin RelationshipTypes)
    => /\ Cur.reqs = <<>>
       /\ Cur.pc = "done" /\ ClientThrew

\* The digit that a digit character writes
DigitValue(c) == CHOOSE d \in 0..9 : DigitChar(d) = c

\* The number that a string of digits writes
RECURSIVE TextToNum(_)
TextToNum(t) ==
  IF t = <<>> THEN 0
  ELSE 10 * TextToNum(SubSeq(t, 1, Len(t) - 1)) + DigitValue(t[Len(t)])

\* validateCredentials has ended
Validated == Cur.vc # {}
Outcome == The(Cur.vc)

\* The ping succeeded: status 200 with a body
PingOk(answer) ==
  answer.kind = "resolved" /\ answer.status = 200 /\ answer.data # {}

\* The workspaces an answer lists
Listed(answer) ==
  IF answer.kind = "resolved" /\ HasResults(answer.data)
  THEN ResultsOf(answer.data) ELSE <<>>

\* The by-ID query returned, as the workspace the client takes from it, a
\* workspace whose ID is the configured all-digit token
FoundById ==
  /\ Validated
  /\ IsAllDigits(workspace)
  /\ Len(Cur.got) >= 2
  /\ PingOk(Cur.got[1])
  /\ Listed(Cur.got[2]) # <<>>
  /\ Listed(Cur.got[2])[1].ObjectID = {TextToNum(workspace)}

\* C7: for an all-digit token that equals the ID of the workspace returned
\* for the by-ID query, validateCredentials (after a successful ping)
\* returns valid with no advisory, sets the workspace reference to
\* /workspace/<that ID>, and issues no workspace list request.
C7_NumericTokenResolvesExactly ==
  FoundById =>
    /\ Outcome.kind = "return" /\ Outcome.valid /\ Outcome.error = {}
    /\ workspaceRef = {<<"/workspace/">> \o NumToText(TextToNum(workspace))}
    /\ Len(Cur.reqs) = 2
    /\ Cur.reqs[1].path = <<"/subscription">>
    /\ Cur.reqs[2].path = <<"/workspace">>
    /\ "query" \in DOMAIN Cur.reqs[2].params

\* C7 witness: the token 01 has been resolved to workspace 1
C7_Witness ==
  /\ FoundById
  /\ workspace = <<"0", "1">>
  /\ Cur.pc = "done"
  /\ workspaceRef = {<<"/workspace/", "1">>}

\* The reference of a listed workspace: from its ObjectID, else from the
\* digits of its _ref; none when it carries neither
EntryRef(w) ==
  IF w.ObjectID # {} THEN {<<"/workspace/">> \o NumToText(The(w.ObjectID))}
  ELSE IF w.ref # {} /\ RefMatch(The(w.ref)) # {}
  THEN {<<"/workspace/">> \o The(RefMatch(The(w.ref)))}
  ELSE {}

\* The token is a case-insensitive substring of the name of workspace w
SubstringOf(w) ==
  w.Name # {} /\ Includes(ToLowerCase(The(w.Name)), ToLowerCase(workspace))

\* The name query found nothing and the list request was answered
ListedAfterNoExactMatch ==
  /\ Validated
  /\ workspace # <<>> /\ ~IsAllDigits(workspace)
  /\ Len(Cur.got) = 3
  /\ PingOk(Cur.got[1])
  /\ Cur.got[2].kind = "resolved"
  /\ Cur.got[3].kind = "resolved"

\* C8 as stated: for a non-numeric token with no exact-name match that is a
\* substring of no listed name, a non-empty list resolves to the reference
\* of its first workspace with an advisory naming that workspace, and an
\* empty list gives an invalid outcome and sets no reference.
C8_FirstAvailableFallback ==
  (/\ ListedAfterNoExactMatch
   /\ \A i \in 1..Len(Listed(Cur.got[3])) : ~SubstringOf(Listed(Cur.got[3])[i]))
    => LET listed == Listed(Cur.got[3])
       IN IF listed # <<>>
          THEN /\ Outcome.kind = "return" /\ Outcome.valid
               /\ Outcome.error # {}
               /\ Includes(The(Outcome.error), OptText(listed[1].Name))
               /\ EntryRef(listed[1]) # {}
               /\ workspaceRef = EntryRef(listed[1])
          ELSE /\ Outcome.kind = "return" /\ ~Outcome.valid
               /\ workspaceRef = Cur.ref0

\* The first listed workspace whose name contains the token
FirstSubstringMatch(listed) ==
  CHOOSE i \in 1..Len(listed) :
    SubstringOf(listed[i]) /\ \A j \in 1..(i - 1) : ~SubstringOf(listed[j])

\* C9 as stated: a non-numeric token with no exact-name match that is a
\* case-insensitive substring of a listed name resolves to the first such
\* workspace, and the outcome carries a non-fatal advisory.
C9_SubstringMatchCarriesAdvisory ==
  (/\ ListedAfterNoExactMatch
   /\ \E i \in 1..Len(Listed(Cur.got[3])) : SubstringOf(Listed(Cur.got[3])[i]))
    => LET listed == Listed(Cur.got[3])
       IN /\ Outcome.kind = "return" /\ Outcome.valid
          /\ Outcome.error # {}
          /\ workspaceRef = EntryRef(listed[FirstSubstringMatch(listed)])

\* C10: validateCredentials never raises: whatever the backend does, it
\* returns an outcome that is valid, valid with an advisory, or invalid with
\* a reason.
C10_ValidateNeverRaises ==
  /\ Validated =>
       /\ Outcome.kind = "return"
       /\ \/ Outcome.valid /\ Outcome.error = {}
          \/ Outcome.valid /\ Outcome.error # {}
          \/ ~Outcome.valid /\ Outcome.error # {}
  /\ (Cur.entry = "validate" /\ Cur.pc = "done") => Validated

\* C10 witness: the 30 second timer of the ping fired and validateCredentials
\* returned an invalid outcome
C10_Witness ==
  /\ Validated
  /\ Cur.entry = "validate"
  /\ Cur.got = <<Rejected(TimerError("Subscription request"))>>
  /\ Outcome.kind = "return" /\ ~Outcome.valid

\* The client method has issued its own request and waits for the answer
RequestSent == Cur.clientCalls = 1 /\ Cur.pc = "request"

\* The request the client method issued
OwnRequest == Cur.reqs[Len(Cur.reqs)]

\* The workspace reference the request carries (absent: {})
CarriedRef ==
  IF Cur.clientOp = "createStory"
  THEN The(The(OwnRequest.body).HierarchicalRequirement["Workspace"])._ref
  ELSE OwnRequest.params["workspace"]

\* C11 as stated: no getStories, getStory, createStory or getRelationships
\* request is sent with an absent workspace reference; an operation that
\* starts without a cached reference resolves first and sends its request
\* only if the resolution succeeded.
C11_RequestCarriesResolvedReference ==
  (/\ RequestSent
   /\ Cur.clientOp \in {"getStories", "getStory", "createStory", "getRelationships"})
    => /\ CarriedRef # {}
       /\ Cur.ref0 = {} => (Validated /\ Outcome.kind = "return" /\ Outcome.valid)

\* The resolution this operation triggered ended fatally
ResolutionFailed ==
  /\ Cur.clientCalls = 1
  /\ Validated
  /\ Outcome.kind = "return" /\ ~Outcome.valid

\* C12 as stated: when the resolution an operation triggered ends fatally,
\* the operation fails with an error and does not go on to its backend
\* request.
C12_FatalResolutionFailsOperation ==
  ResolutionFailed =>
    /\ Cur.pc = "done"
    /\ ClientThrew
    /\ \A i \in 1..Len(Cur.reqs) :
         Cur.reqs[i].path \in {<<"/subscription">>, <<"/workspace">>}

\* The HierarchicalRequirement envelope of the request as it is serialized
PostedStory == Serialize(The(OwnRequest.body).HierarchicalRequirement)

\* The caller of createStory named a Project itself
HasExplicitProject ==
  "Project" \in DOMAIN Cur.clientArgs.data /\ Cur.clientArgs.data["Project"] # {}

ProvidedUpdateKeys(a) ==
  (IF a.name # {} THEN {"Name"} ELSE {})
  \cup (IF a.description # {} THEN {"Description"} ELSE {})
  \cup (IF a.state # {} THEN {"ScheduleState"} ELSE {})
  \cup (IF a.estimate # {} THEN {"PlanEstimate"} ELSE {})
  \cup (IF a.priority # {} THEN {"Priority"} ELSE {})

\* The input of updateStory that a backend name stands for
UpdateInput(a, key) ==
  CASE key = "Name" -> a.name
    [] key = "Description" -> a.description
    [] key = "ScheduleState" -> a.state
    [] key = "PlanEstimate" -> a.estimate
    [] key = "Priority" -> a.priority

\* C15: the updateStory tool passes to RallyClient.updateStory a field set
\* whose keys are exactly the backend names of the inputs that were provided,
\* each with the provided value (empty string and 0 included), and the
\* client posts that field set unchanged.
C15_SparsePatch ==
  (IsTool("updateStory") /\ Cur.clientCalls = 1)
    => /\ Cur.clientArgs.id = Cur.args.id
       /\ DOMAIN Cur.clientArgs.data = ProvidedUpdateKeys(Cur.args)
       /\ \A k \in DOMAIN Cur.clientArgs.data :
            Cur.clientArgs.data[k] = UpdateInput(Cur.args, k)
       /\ Cur.pc = "request" =>
            /\ OwnRequest.method = "POST"
            /\ OwnRequest.path = ArtifactPath(Cur.args.id)
            /\ OwnRequest.body = {[HierarchicalRequirement |-> Cur.clientArgs.data]}

\* C15 witness: an update with an empty description and estimate 0 and no
\* other field has been posted
C15_Witness ==
  /\ IsTool("updateStory") /\ Cur.pc = "request"
  /\ Cur.args.name = {} /\ Cur.args.state = {} /\ Cur.args.priority = {}
  /\ Cur.args.description = {<<>>} /\ Cur.args.estimate = {0}
  /\ OwnRequest.body =
       {[HierarchicalRequirement |->
           ("Description" :> {<<>>}) @@ ("PlanEstimate" :> {0})]}

\* The field set the createStory tool handed to RallyClient.createStory
PassedStory == Cur.clientArgs.data

\* An optional input of createStory is passed under its backend name with
\* its value when it was provided, and not at all when it was absent
PassedAs(input, key, value) ==
  IF input # {}
  THEN key \in DOMAIN PassedStory /\ PassedStory[key] = value
  ELSE key \notin DOMAIN PassedStory

\* C16 as stated: the createStory tool passes every provided optional input
\* under its backend name (projectId as the Project reference /project/<id>,
\* state as ScheduleState, estimate as PlanEstimate, priority as Priority),
\* estimate 0 included, and passes none of the four when the input is absent.
C16_EveryProvidedInputPassed ==
  (IsTool("createStory") /\ Cur.clientCalls = 1)
    => /\ PassedAs(Cur.args.projectId, "Project",
                   {[_ref |-> <<"/project/">> \o OptText(Cur.args.projectId)]})
       /\ PassedAs(Cur.args.state, "ScheduleState", Cur.args.state)
       /\ PassedAs(Cur.args.estimate, "PlanEstimate", Cur.args.estimate)
       /\ PassedAs(Cur.args.priority, "Priority", Cur.args.priority)

\* The raw artifact the getRelationships handler reads: the
\* HierarchicalRequirement of the client's result, or an empty object
RawArtifact ==
  LET hr == Get(The(Cur.client).value, "HierarchicalRequirement")
  IN IF hr.kind = "object" THEN hr.fields ELSE NoFields

\* The raw artifact has a value for the field
Present(f) == f \in DOMAIN RawArtifact /\ RawArtifact[f].kind # "null"

\* The names array of a collection of the raw artifact, if it has one
HasNames(f) ==
  /\ RawArtifact[f].kind = "object"
  /\ "_tagsNameArray" \in DOMAIN RawArtifact[f].fields

\* The snapshot the handler answered with
Snapshot == The(The(Cur.result).content[1].json)

\* C17: the snapshot of the getRelationships tool has, for each of
\* Predecessors, Successors, Children, Blocked, Blocker, Duplicates present in
\* the raw artifact, the list of its display names (the empty list when the
\* names array is missing), for a Parent present with a display name that
\* name, no field that the raw artifact lacks, and never Duplicated.
C17_SnapshotFieldByField ==
  (IsTool("getRelationships") /\ Answered /\ ClientReturned
     /\ CanRead(The(Cur.client).value))
    => /\ ~The(Cur.result).isError
       /\ \A f \in {"Predecessors", "Successors", "Children",
                    "Blocked", "Blocker", "Duplicates"} :
            Present(f) =>
              /\ f \in DOMAIN Snapshot
              /\ Snapshot[f] = IF HasNames(f)
                               THEN RawArtifact[f].fields["_tagsNameArray"]
                               ELSE JsArray(<<>>)
       /\ (Present("Parent") /\ RawArtifact["Parent"].kind = "object"
             /\ "_refObjectName" \in DOMAIN RawArtifact["Parent"].fields)
            => /\ "Parent" \in DOMAIN Snapshot
               /\ Snapshot["Parent"] = RawArtifact["Parent"].fields["_refObjectName"]
       /\ \A f \in DOMAIN Snapshot : Present(f)
       /\ "Duplicated" \notin DOMAIN Snapshot

\* C17 witness: an artifact with Children lacking a names array and a named
\* Parent gave a snapshot with an empty Children list, the Parent's name and
\* nothing else
C17_Witness ==
  /\ IsTool("getRelationships") /\ Answered /\ ClientReturned
  /\ CanRead(The(Cur.client).value)
  /\ DOMAIN RawArtifact = {"Children", "Parent"}
  /\ ~HasNames("Children")
  /\ Snapshot = ("Children" :> JsArray(<<>>)) @@ ("Parent" :> JsText(<<"F1">>))

C20_ServesWithoutWaiting == <>[](main.pc = "serving")

\* C20 witness: the server serves and has logged the warning of an invalid
\* validation
C20_Witness ==
  /\ main.pc = "serving"
  /\ main.logged = "warn"
  /\ ~The(calls["startup"].vc).valid

\* The last tool call made on the double, and the one before it
LastCall == session[Len(session)]
CallBefore == session[Len(session) - 1]

\* The display names a snapshot lists under Predecessors
PredecessorsOf(snapshot) ==
  IF "Predecessors" \in DOMAIN snapshot
  THEN {snapshot["Predecessors"].items[i] :
          i \in 1..Len(snapshot["Predecessors"].items)}
  ELSE {}

\* The call opened a round trip: a Predecessor link was created from an
\* artifact whose snapshot had no Predecessors field
OpensRoundTrip(c) ==
  /\ c.op = "createRelationship"
  /\ c.args.relationshipType = "Predecessor"
  /\ ~c.result.isError
  /\ "Predecessors" \notin DOMAIN MockSnapshot(c.before, c.args.sourceId)

\* C18: on the in-memory double, after createRelationship(S, T, Predecessor)
\* from an artifact S whose snapshot had no Predecessors field, the snapshot
\* of S lists T under Predecessors, and after a following
\* removeRelationship(S, T, Predecessor) the snapshot of S has no
\* Predecessors field again.
C18_PredecessorRoundTrip ==
  /\ (Len(session) >= 1 /\ OpensRoundTrip(LastCall))
       => LastCall.args.targetId \in
            PredecessorsOf(MockSnapshot(relationships, LastCall.args.sourceId))
  /\ (/\ Len(session) >= 2 /\ OpensRoundTrip(CallBefore)
      /\ LastCall.op = "removeRelationship"
      /\ LastCall.args = CallBefore.args)
       => /\ ~LastCall.result.isError
          /\ "Predecessors" \notin
               DOMAIN MockSnapshot(relationships, LastCall.args.sourceId)

\* C18 witness: US9, unknown to the double, was linked to its predecessor
\* US2 and the link was removed again
C18_Witness ==
  /\ Len(session) = 2
  /\ OpensRoundTrip(CallBefore)
  /\ CallBefore.args.sourceId = <<"US9">> /\ CallBefore.args.targetId = <<"US2">>
  /\ LastCall.op = "removeRelationship" /\ LastCall.args = CallBefore.args
  /\ PredecessorsOf(MockSnapshot(LastCall.before, <<"US9">>)) = {<<"US2">>}
  /\ MockSnapshot(relationships, <<"US9">>) = NoFields

\* The double holds a relationship of the kind from source to target
LinkExists(rel, sourceId, targetId, relationshipType) ==
  /\ sourceId \in DOMAIN rel
  /\ CASE relationshipType = "Parent" -> rel[sourceId].parent = {targetId}
       [] relationshipType = "Child" ->
            \E i \in 1..Len(rel[sourceId].children) :
              rel[sourceId].children[i] = targetId
       [] MockLists(relationshipType) # {} ->
            LET own == rel[sourceId][The(MockLists(relationshipType)).own]
            IN \E i \in 1..Len(own) : own[i] = targetId
       [] OTHER -> FALSE

\* C19 as stated: the removeRelationship tool called for a relationship that
\* does not exist returns success and leaves the relationship state of every
\* artifact as it was; a second identical call changes nothing further.
C19_RemoveMissingIsNoOp ==
  /\ (/\ Len(session) >= 1
      /\ LastCall.op = "removeRelationship"
      /\ ~LinkExists(LastCall.before, LastCall.args.sourceId,
                     LastCall.args.targetId, LastCall.args.relationshipType))
       => /\ ~LastCall.result.isError
          /\ relationships = LastCall.before
  /\ (/\ Len(session) >= 2
      /\ LastCall.op = "removeRelationship"
      /\ CallBefore.op = "removeRelationship"
      /\ LastCall.args = CallBefore.args)
       => relationships = LastCall.before

\* C21 as stated: with the startup validation in flight and operations
\* arriving before the reference is cached, each caller may start its own
\* resolution, but the workspace reference is assigned a defined value at
\* most once and keeps that value: no step changes a reference that is set,
\* so all concurrent resolutions end with the same reference.
C21_ReferenceWrittenOnce ==
  [][workspaceRef # {} => workspaceRef' = workspaceRef]_vars

\* The first-available fallback was taken: nothing was found by ID or exact
\* name, the list is not empty, and no substring match applies
FallbackTaken ==
  /\ Validated
  /\ workspace # <<>>
  /\ Len(Cur.got) = 3
  /\ PingOk(Cur.got[1])
  /\ Cur.got[2].kind = "resolved"
  /\ Listed(Cur.got[3]) # <<>>
  /\ \/ IsAllDigits(workspace)
     \/ \A i \in 1..Len(Listed(Cur.got[3])) : ~SubstringOf(Listed(Cur.got[3])[i])

\* A reference of the form /workspace/<numeric id>
IsWorkspaceRef(r) ==
  /\ Len(r) >= 2
  /\ r[1] = "/workspace/"
  /\ IsAllDigits(Tail(r))

\* C22 as stated: in the first-available fallback, when the first listed
\* workspace has no ObjectID and its _ref does not match /workspace/<digits>,
\* the outcome is invalid and the workspace reference is not set; whenever
\* the workspace reference is set, it has the form /workspace/<numeric id>.
C22_FallbackWithoutIdFails ==
  /\ (FallbackTaken /\ EntryRef(Listed(Cur.got[3])[1]) = {})
       => /\ Outcome.kind = "return" /\ ~Outcome.valid
          /\ workspaceRef = {}
  /\ workspaceRef # {} => IsWorkspaceRef(The(workspaceRef))

\* The run's ping did not succeed: it was rejected (an HTTP status, no
\* response, the timer) or answered without status 200 and a body
PingFailed == Len(Cur.got) >= 1 /\ ~PingOk(Cur.got[1])

\* C23: the validator is staged: when the /subscription ping fails the
\* outcome is invalid, the run issues no workspace query and no workspace
\* list request, and the cached workspace reference is left as it was; and
\* every invalid outcome leaves the workspace reference as the run found it.
C23_PingFailureStopsTheRun ==
  /\ PingFailed =>
       /\ Validated
       /\ Outcome.kind = "return" /\ ~Outcome.valid
       /\ Cur.reqs = <<PingRequest>>
       /\ Len(Cur.got) = 1
       /\ workspaceRef = Cur.ref0
  /\ (Validated /\ ~(Outcome.kind = "return" /\ Outcome.valid))
       => workspaceRef = Cur.ref0

\* C23 witness: on a client whose reference an earlier run has resolved, a
\* run's ping was answered 500 and the run ended invalid after that one
\* request, the reference as before
C23_Witness ==
  /\ Cur.entry = "validate" /\ Validated
  /\ Cur.got = <<Rejected(HttpError(500))>>
  /\ ~Outcome.valid
  /\ Cur.reqs = <<PingRequest>>
  /\ Cur.ref0 = {<<"/workspace/", "1", "2">>}
  /\ workspaceRef = Cur.ref0

\* The answer is an HTTP 401
Unauthorized(answer) ==
  answer.kind = "rejected" /\ answer.error.response = {401}

\* The reason validateCredentials gives for an authentication failure
AuthenticationReason == <<"Authentication failed - invalid API key">>

\* C24 as stated: whenever a backend call made by validateCredentials (the
\* ping, the workspace query or the workspace list) is answered 401, the
\* outcome is invalid with the authentication-failure reason, and that reason
\* is given for no other HTTP status and for no connectivity failure.
C24_UnauthorizedClassified ==
  Validated =>
    LET denied == \E i \in 1..Len(Cur.got) : Unauthorized(Cur.got[i])
    IN /\ denied => (Outcome.kind = "return" /\ ~Outcome.valid)
       /\ denied <=> (Outcome.error = {AuthenticationReason})

MutatingTools ==
  {"createStory", "updateStory", "deleteStory",
   "createRelationship", "removeRelationship"}

\* The mutation requests a call has issued: everything but the GETs of the
\* workspace resolution
MutationRequests(c) ==
  {i \in 1..Len(c.reqs) : c.reqs[i].method \in {"POST", "DELETE"}}

\* C25: an invocation of a mutating tool (createStory, updateStory,
\* deleteStory, createRelationship, removeRelationship) issues at most one
\* mutation request: when the client call has failed the invocation is over
\* with an error result and nothing was sent again, and an invocation that
\* answered with success issued exactly one.
C25_AtMostOneMutationRequest ==
  (Cur.entry = "tool" /\ Cur.op \in MutatingTools)
    => /\ Cardinality(MutationRequests(Cur)) <= 1
       /\ ClientThrew =>
            /\ Cur.pc = "done"
            /\ Answered /\ The(Cur.result).isError
       /\ (Answered /\ ~The(Cur.result).isError) =>
            /\ Cur.pc = "done"
            /\ Cardinality(MutationRequests(Cur)) = 1

\* C25 witness: the request of removeRelationship was answered 500 after a
\* resolution of three requests; the tool answered with an error and the
\* mutation was sent once
C25_Witness ==
  /\ IsTool("removeRelationship")
  /\ Cur.pc = "done" /\ ClientThrew
  /\ The(Cur.result).isError
  /\ Len(Cur.reqs) = 4
  /\ MutationRequests(Cur) = {4}
  /\ The(Cur.client).error.message[1] = "Failed to remove relationship: "

\* The query parameters the caller of getStories gave
CallerParams == Cur.clientArgs.queryParams

\* C26 as stated: for every set of query parameters given to the stories
\* listing, the workspace and project parameters of the backend request are
\* the client's workspace reference and configured project; the caller's
\* parameters (ones named workspace or project included) are added to the
\* request and never replace those two.
C26_CallerParamsNeverReplaceContext ==
  (RequestSent /\ Cur.clientOp = "getStories")
    => /\ OwnRequest.method = "GET"
       /\ OwnRequest.params["workspace"] = workspaceRef
       /\ OwnRequest.params["project"] =
            (IF project # {} THEN {<<"/project/">> \o The(project)} ELSE {})
       /\ \A k \in DOMAIN CallerParams \ {"workspace", "project"} :
            k \in DOMAIN OwnRequest.params /\ OwnRequest.params[k] = CallerParams[k]

\* The field is one of those the request of RallyClient.getRelationships
\* asks the backend for
Fetched(f) ==
  LET fetch == The(Prepare("getRelationships", [artifactId |-> <<"US1">>],
                           {}, {}).request.params["fetch"])
  IN f # "," /\ \E i \in 1..Len(fetch) : fetch[i] = f

\* The getRelationships tool copies the field into the snapshot when the
\* artifact carries it
Parsed(f) ==
  LET value == IF f = "Parent"
               THEN JsObject("_refObjectName" :> JsText(<<"F1">>))
               ELSE NamesOf(<<"US2">>)
  IN f \in DOMAIN Relationships(JsObject(f :> value))

\* C27 as stated: for every relationship kind other than Duplicated, the
\* field that createRelationship and removeRelationship write for the kind is
\* one of the fields that RallyClient.getRelationships fetches and that the
\* getRelationships tool copies into the snapshot.
C27_WrittenFieldsReadBack ==
  (Mutating /\ Cur.clientArgs.relationshipType # "Duplicated")
    => \A f \in DOMAIN MutationFields : Fetched(f) /\ Parsed(f)

\* list.includes(x)
InList(list, x) == \E i \in 1..Len(list) : list[i] = x

\* Every call made on the double so far named two different artifacts
DistinctEnds ==
  \A i \in 1..Len(session) :
    session[i].args.sourceId # session[i].args.targetId

\* C28 as stated: on the in-memory double, from its initial data and after
\* any sequence of createRelationship and removeRelationship calls with
\* source different from target, for every pair of artifacts a, b: b is in
\* a.predecessors iff a is in b.successors, b is in a.blockers iff a is in
\* b.blocked, and a.parent = b iff a is in b.children.
C28_InverseLinksConsistent ==
  DistinctEnds =>
    \A a, b \in DOMAIN relationships :
      /\ InList(relationships[a].predecessors, b)
           <=> InList(relationships[b].successors, a)
      /\ InList(relationships[a].blockers, b)
           <=> InList(relationships[b].blocked, a)
      /\ (relationships[a].parent = {b})
           <=> InList(relationships[b].children, a)

\* The request the HTTP server handled last
LastRequest == http.last

\* C29 as stated: the session map holds a transport under a session id
\* exactly from the session's initialization until the transport closes; a
\* POST with a known session id is handled by the transport registered under
\* it and creates no transport, a POST with no or an unknown session id
\* creates a transport, and a GET or DELETE with no or an unknown session id
\* is answered 400 without invoking any transport.
C29_SessionMapAndRouting ==
  /\ \A s \in SessionIds :
       (s \in DOMAIN http.transports)
         <=> (\E t \in 1..Len(http.created) :
                http.created[t].sessionId = {s} /\ ~http.created[t].closed)
  /\ \A s \in DOMAIN http.transports :
       http.created[http.transports[s]].sessionId = {s}
  /\ (LastRequest.method = "POST" /\ LastRequest.known) =>
       /\ ~LastRequest.createdNew
       /\ LastRequest.by # {}
       /\ http.created[The(LastRequest.by)].sessionId = LastRequest.header
  /\ (LastRequest.method = "POST" /\ ~LastRequest.known) =>
       /\ LastRequest.createdNew
       /\ LastRequest.outcome = "handled"
  /\ (LastRequest.method \in {"GET", "DELETE"} /\ ~LastRequest.known) =>
       /\ LastRequest.outcome = "400"
       /\ LastRequest.by = {}

\* The _meta of the listing the stories resource answered with
Meta == The(Cur.result).meta

\* C30 as stated: in the stories listing, _meta.hasMore is true exactly when
\* the backend holds results beyond the returned page: with the startIndex
\* (1-based), pageSize and total reported in _meta,
\* hasMore = (startIndex + pageSize - 1 < total).
C30_HasMoreBeyondPage ==
  (Cur.entry = "resource" /\ Answered /\ "hasMore" \in DOMAIN Meta)
    => (Meta["hasMore"].value
          <=> (Meta["startIndex"].value + Meta["pageSize"].value - 1
                 < Meta["total"].value))

====
